---- MODULE Spec2Model ----
(***************************************************************************)
(* The external-data access layer of the consultation-portal browser.      *)
(*                                                                         *)
(*   - the transport client  (src/services/apiClient.ts, ApiClient.get and *)
(*     ApiClient.post, the ApiResponse-returning variant, lines 21-140);   *)
(*   - the case repository   (src/services/rssService.ts);                 *)
(*   - the CaseLookup component that calls it                              *)
(*     (src/components/CaseLookup.tsx): Spec is the data access layer,     *)
(*     SpecList the displayed list, SpecLookup the selection and analysis  *)
(*     handlers.                                                           *)
(*                                                                         *)
(* One caller at a time invokes an operation; the operation suspends at    *)
(* every `await`, the network settles the request with an outcome the      *)
(* program does not control, and the operation resumes.                    *)
(***************************************************************************)
EXTENDS Integers, Sequences, FiniteSets, TLC

VARIABLES
    op,        \* the operation the caller invoked: "none", "get", "post", "fetchCaseComments",
               \* "searchCases", "fetchCaseById"
    pc,        \* where that operation is: "idle", "await", "awaitMeta", "awaitAdv", "done"
    arg,       \* the id the caller passed (a sequence of characters), <<>> for get/post
    caseId,    \* fetchCaseComments' local caseId, the value of Number.parseInt(id, 10)
    requests,  \* the requests handed to fetch() so far by this operation, in order
    fetched,   \* what the network did with each of them, in order
    outcomes,  \* how each apiClient call completed (returned ApiResponse, or thrown), in order
    result,    \* how the operation completed: returned value or raised error
    \* the state of the CaseLookup component (CaseLookup.tsx lines 54-65)
    allCases, displayedCases, selectedApiCase, caseDetails, althingiStatus,
    althingiReviewAnalysis, isLoadingCases, isLoadingDetails, isLoadingAlthingi,
    isLoadingAlthingiReviews, error, searchTerm,
    loadPc,      \* where loadAllCases is: "await" (searchCases pending), or how it
                 \* ended: "done" (through line 75) or "failed" (through the catch)
    runs,        \* the handleStartAnalysis runs started so far, each with its closure
    reviews,     \* the handleAnalyzeAlthingiReviews runs started so far
    selections,  \* how many times handleSelectCase has run
    \* the state of the Chatbot component (lines 10-13)
    chat, messages, input, isLoading,
    sends        \* the handleSend runs accepted so far, each with its locals

\* the variables of the data access layer, and those of the component
repoVars == <<op, pc, arg, caseId, requests, fetched, outcomes, result>>
listVars == <<allCases, displayedCases, isLoadingCases, searchTerm, loadPc>>
panelVars == <<selectedApiCase, caseDetails, althingiStatus, althingiReviewAnalysis, error>>
flagVars == <<isLoadingDetails, isLoadingAlthingi, isLoadingAlthingiReviews>>
uiVars == <<listVars, panelVars, flagVars, runs, reviews, selections>>
chatVars == <<chat, messages, input, isLoading, sends>>

vars == <<repoVars, uiVars, chatVars>>

----------------------------------------------------------------------------
(* Bounds of the model. *)

\* longest id string a caller passes to fetchCaseComments and fetchCaseById
MaxIdLen == 2

\* longest list of cases searchCases hands to the component
MaxCases == 4

\* longest search term typed into the search field
MaxTermLen == 2

\* how many times the user selects a case, starts an analysis, and asks for
\* the analysis of the Althingi reviews
MaxSelections == 2
MaxRuns == 2
MaxReviews == 1

----------------------------------------------------------------------------
(* JavaScript values as they come out of JSON.parse.                      *)

JUndef == [t |-> "undefined"]
JNull == [t |-> "null"]
JNum(n) == [t |-> "number", n |-> n]
JStr(s) == [t |-> "string", s |-> s]
JArr(items) == [t |-> "array", items |-> items]
JObj(fields) == [t |-> "object", fields |-> fields]

\* v?.key : undefined for null and undefined, and for every value that has no
\* own property `key`
Prop(v, key) ==
    IF v.t = "object" /\ key \in DOMAIN v.fields THEN v.fields[key] ELSE JUndef

\* !!v
Truthy(v) ==
    CASE v.t = "undefined" -> FALSE
      [] v.t = "null"      -> FALSE
      [] v.t = "number"    -> v.n # 0
      [] v.t = "string"    -> v.s # ""
      [] OTHER             -> TRUE

\* v ?? d
Coalesce(v, d) == IF v = JNull \/ v = JUndef THEN d ELSE v

----------------------------------------------------------------------------
(* What the upstream can answer: body texts, and what JSON.parse makes of *)
(* each of them.                                                          *)

AdviceFull ==
    JObj("id" :> JNum(1) @@ "participantName" :> JStr("Jón") @@
         "content" :> JStr("Gott mál") @@ "created" :> JStr("2024-01-01"))
AdviceBare ==
    JObj("id" :> JNum(2) @@ "content" :> JNull @@ "created" :> JStr("2024-02-01"))
GraphQLErrors == JArr(<<JObj("message" :> JStr("Bad request"))>>)
\* an upstream record with a null submitter name and an empty body
AdviceEmpty ==
    JObj("id" :> JNum(3) @@ "participantName" :> JNull @@
         "content" :> JStr("") @@ "created" :> JStr("2024-03-01"))
\* case records of the REST upstream
CaseA == JObj("id" :> JNum(42) @@ "name" :> JStr("Mál A") @@ "created" :> JStr("2024-01-01"))
CaseB == JObj("id" :> JNum(7) @@ "name" :> JStr("Mál B") @@ "created" :> JStr(""))

Parsed(v) == [ok |-> TRUE, val |-> v, err |-> ""]
SyntaxError(m) == [ok |-> FALSE, val |-> JUndef, err |-> m]

\* response.json(): JSON.parse of the body text
JSONParse(text) ==
    CASE text = "null" -> Parsed(JNull)
      [] text = "{}"   -> Parsed(JObj(<<>>))
      [] text = "{\"data\":{\"consultationPortalCaseById\":null}}" ->
            Parsed(JObj("data" :> JObj("consultationPortalCaseById" :> JNull)))
      [] text = "{\"data\":{\"consultationPortalCaseById\":{\"id\":42}}}" ->
            Parsed(JObj("data" :> JObj("consultationPortalCaseById" :>
                                        JObj("id" :> JNum(42)))))
      [] text = "{\"data\":{\"consultationPortalCaseById\":{\"id\":0}}}" ->
            Parsed(JObj("data" :> JObj("consultationPortalCaseById" :>
                                        JObj("id" :> JNum(0)))))
      [] text = "{\"errors\":[{\"message\":\"Bad request\"}]}" ->
            Parsed(JObj("errors" :> GraphQLErrors))
      [] text = "{\"data\":null,\"errors\":[{\"message\":\"Bad request\"}]}" ->
            Parsed(JObj("data" :> JNull @@ "errors" :> GraphQLErrors))
      [] text = "{\"data\":{}}" -> Parsed(JObj("data" :> JObj(<<>>)))
      [] text = "{\"data\":{\"consultationPortalAdviceByCaseId\":null}}" ->
            Parsed(JObj("data" :> JObj("consultationPortalAdviceByCaseId" :> JNull)))
      [] text = "{\"data\":{\"consultationPortalAdviceByCaseId\":[]}}" ->
            Parsed(JObj("data" :> JObj("consultationPortalAdviceByCaseId" :>
                                        JArr(<<>>))))
      [] text = "{\"data\":{\"consultationPortalAdviceByCaseId\":[{\"id\":1,\"participantName\":\"Jón\",\"content\":\"Gott mál\",\"created\":\"2024-01-01\"},{\"id\":2,\"content\":null,\"created\":\"2024-02-01\"}]}}" ->
            Parsed(JObj("data" :> JObj("consultationPortalAdviceByCaseId" :>
                                        JArr(<<AdviceFull, AdviceBare>>))))
      [] text = "{\"data\":{\"consultationPortalAdviceByCaseId\":[{\"id\":3,\"participantName\":null,\"content\":\"\",\"created\":\"2024-03-01\"}]}}" ->
            Parsed(JObj("data" :> JObj("consultationPortalAdviceByCaseId" :>
                                        JArr(<<AdviceEmpty>>))))
      [] text = "{\"cases\":null,\"total\":0}" ->
            Parsed(JObj("cases" :> JNull @@ "total" :> JNum(0)))
      [] text = "{\"cases\":[],\"total\":0}" ->
            Parsed(JObj("cases" :> JArr(<<>>) @@ "total" :> JNum(0)))
      [] text = "{\"cases\":[{\"id\":7,\"name\":\"Mál B\",\"created\":\"\"},{\"id\":42,\"name\":\"Mál A\",\"created\":\"2024-01-01\"}],\"total\":2}" ->
            Parsed(JObj("cases" :> JArr(<<CaseB, CaseA>>) @@ "total" :> JNum(2)))
      [] text = "{\"id\":42,\"name\":\"Mál A\",\"created\":\"2024-01-01\"}" ->
            Parsed(CaseA)
      [] text = "" -> SyntaxError("Unexpected end of JSON input")
      [] OTHER -> SyntaxError("Unexpected token in JSON")

BodyTexts ==
    { "", "<html>", "Not Found", "null", "{}",
      "{\"data\":{\"consultationPortalCaseById\":null}}",
      "{\"data\":{\"consultationPortalCaseById\":{\"id\":42}}}",
      "{\"data\":{\"consultationPortalCaseById\":{\"id\":0}}}",
      "{\"errors\":[{\"message\":\"Bad request\"}]}",
      "{\"data\":null,\"errors\":[{\"message\":\"Bad request\"}]}",
      "{\"data\":{}}",
      "{\"data\":{\"consultationPortalAdviceByCaseId\":null}}",
      "{\"data\":{\"consultationPortalAdviceByCaseId\":[]}}",
      "{\"data\":{\"consultationPortalAdviceByCaseId\":[{\"id\":1,\"participantName\":\"Jón\",\"content\":\"Gott mál\",\"created\":\"2024-01-01\"},{\"id\":2,\"content\":null,\"created\":\"2024-02-01\"}]}}",
      "{\"data\":{\"consultationPortalAdviceByCaseId\":[{\"id\":3,\"participantName\":null,\"content\":\"\",\"created\":\"2024-03-01\"}]}}",
      "{\"cases\":null,\"total\":0}",
      "{\"cases\":[],\"total\":0}",
      "{\"cases\":[{\"id\":7,\"name\":\"Mál B\",\"created\":\"\"},{\"id\":42,\"name\":\"Mál A\",\"created\":\"2024-01-01\"}],\"total\":2}",
      "{\"id\":42,\"name\":\"Mál A\",\"created\":\"2024-01-01\"}" }

\* the statuses a fetch Response is seen with in the model
Statuses == {200, 204, 299, 300, 404, 500}

\* What `await fetch(url, init)` followed by reading the body can do:
\*   the promise rejects (no response at all);
\*   a response arrives with a status, and its body is read in full;
\*   a response arrives with a status, and reading its body fails.
Rejected == [kind |-> "reject", status |-> 0, body |-> "", bodyOk |-> FALSE,
             err |-> "Failed to fetch"]
Responded(status, text) ==
    [kind |-> "response", status |-> status, body |-> text, bodyOk |-> TRUE, err |-> ""]
BodyLost(status) ==
    [kind |-> "response", status |-> status, body |-> "", bodyOk |-> FALSE,
     err |-> "network error"]

FetchOutcomes ==
    {Rejected} \cup {Responded(s, b) : s \in Statuses, b \in BodyTexts}
               \cup {BodyLost(s) : s \in Statuses}

----------------------------------------------------------------------------
(* The transport client: ApiClient.get and ApiClient.post.                *)

\* response.ok
ResponseOk(status) == status >= 200 /\ status <= 299

HttpErrorMessage(status) ==
    "Villa í netsamskiptum við vefþjónustu (HTTP " \o ToString(status) \o ")."
NetworkErrorMessage ==
    "Ekki tókst að ná sambandi við vefþjónustu. Athugaðu netenginguna þína."

ApiError(message, body) == [t |-> "error", message |-> message, body |-> body]

\* how a block of code completes: it returns an ApiResponse, or it throws
Return(resp) == [kind |-> "return", resp |-> resp, err |-> ""]
Throw(err) == [kind |-> "throw", resp |-> JUndef, err |-> err]

\* get's try block with the response's status replaced by a fixed 200
GetTry_FixedStatus(f) ==
    IF f.kind = "reject" THEN Throw(f.err)
    ELSE IF ~ResponseOk(f.status)
    THEN IF ~f.bodyOk THEN Throw(f.err)
         ELSE Return([success |-> FALSE, data |-> JNull, status |-> f.status,
                      error |-> ApiError(HttpErrorMessage(f.status), f.body)])
    ELSE IF ~f.bodyOk THEN Throw(f.err)
    ELSE IF ~JSONParse(f.body).ok THEN Throw(JSONParse(f.body).err)
    ELSE Return([success |-> TRUE, data |-> JSONParse(f.body).val,
                 status |-> 200, error |-> JUndef])

\* the try block of get (lines 49-77)
GetTry(f) ==
    IF f.kind = "reject" THEN Throw(f.err)
    ELSE IF ~ResponseOk(f.status)
    THEN IF ~f.bodyOk THEN Throw(f.err)
         ELSE Return([success |-> FALSE, data |-> JNull, status |-> f.status,
                      error |-> ApiError(HttpErrorMessage(f.status), f.body)])
    ELSE IF ~f.bodyOk THEN Throw(f.err)
    ELSE IF ~JSONParse(f.body).ok THEN Throw(JSONParse(f.body).err)
    ELSE Return([success |-> TRUE, data |-> JSONParse(f.body).val,
                 status |-> f.status, error |-> JUndef])

\* get's catch block returning the failure without its error field
GetCatch_NoError(c) ==
    IF c.kind = "throw"
    THEN Return([success |-> FALSE, data |-> JNull, status |-> 0, error |-> JUndef])
    ELSE c

\* get's catch block rethrowing what it caught
GetCatch_Rethrow(c) == c

\* the catch block of get (lines 79-88)
GetCatch(c) ==
    IF c.kind = "throw"
    THEN Return([success |-> FALSE, data |-> JNull, status |-> 0,
                 error |-> ApiError(NetworkErrorMessage, c.err)])
    ELSE c

get(f) == GetCatch(GetTry(f))

\* post's try block handing the error body over as the payload of a failure
PostTry_BodyAsData(f) ==
    IF f.kind = "reject" THEN Throw(f.err)
    ELSE IF ~ResponseOk(f.status)
    THEN IF ~f.bodyOk THEN Throw(f.err)
         ELSE Return([success |-> FALSE, data |-> JStr(f.body), status |-> f.status,
                      error |-> ApiError(HttpErrorMessage(f.status), f.body)])
    ELSE IF ~f.bodyOk THEN Throw(f.err)
    ELSE IF ~JSONParse(f.body).ok THEN Throw(JSONParse(f.body).err)
    ELSE Return([success |-> TRUE, data |-> JSONParse(f.body).val,
                 status |-> f.status, error |-> JUndef])

\* the try block of post (lines 100-127)
PostTry(f) ==
    IF f.kind = "reject" THEN Throw(f.err)
    ELSE IF ~ResponseOk(f.status)
    THEN IF ~f.bodyOk THEN Throw(f.err)
         ELSE Return([success |-> FALSE, data |-> JNull, status |-> f.status,
                      error |-> ApiError(HttpErrorMessage(f.status), f.body)])
    ELSE IF ~f.bodyOk THEN Throw(f.err)
    ELSE IF ~JSONParse(f.body).ok THEN Throw(JSONParse(f.body).err)
    ELSE Return([success |-> TRUE, data |-> JSONParse(f.body).val,
                 status |-> f.status, error |-> JUndef])

\* post's catch block reporting the failure with the HTTP-failure message
PostCatch_HttpMessage(c) ==
    IF c.kind = "throw"
    THEN Return([success |-> FALSE, data |-> JNull, status |-> 0,
                 error |-> ApiError(HttpErrorMessage(500), c.err)])
    ELSE c

\* the catch block of post (lines 129-138)
PostCatch(c) ==
    IF c.kind = "throw"
    THEN Return([success |-> FALSE, data |-> JNull, status |-> 0,
                 error |-> ApiError(NetworkErrorMessage, c.err)])
    ELSE c

post(f) == PostCatch(PostTry(f))

----------------------------------------------------------------------------
(* The case repository: fetchCaseComments (rssService.ts lines 55-96).    *)

\* the characters id strings are made of in the model
IdChars == {"0", "4", "2", "a", " ", "-"}
DigitChars == {"0", "1", "2", "3", "4", "5", "6", "7", "8", "9"}
DigitValue(c) == CHOOSE d \in 0..9 : ToString(d) = c

\* every id string of at most MaxIdLen characters
Ids == UNION {[1..n -> IdChars] : n \in 0..MaxIdLen}

RECURSIVE TrimStart(_)
TrimStart(s) == IF s # <<>> /\ Head(s) = " " THEN TrimStart(Tail(s)) ELSE s

RECURSIVE TrimEnd(_)
TrimEnd(s) ==
    IF s # <<>> /\ s[Len(s)] = " " THEN TrimEnd(SubSeq(s, 1, Len(s) - 1)) ELSE s

\* the value of the longest prefix of digits of s, read after the digits `acc`
RECURSIVE DigitsValue(_, _)
DigitsValue(s, acc) ==
    IF s # <<>> /\ Head(s) \in DigitChars
    THEN DigitsValue(Tail(s), 10 * acc + DigitValue(Head(s)))
    ELSE acc

NaN == [nan |-> TRUE, n |-> 0]
Number(n) == [nan |-> FALSE, n |-> n]

\* Number.parseInt(id, 10): leading white space is skipped, then an optional
\* sign, then the longest run of digits; NaN when there is no digit there
parseInt(s) ==
    LET t == TrimStart(s)
        signed == t # <<>> /\ Head(t) \in {"+", "-"}
        u == IF signed THEN Tail(t) ELSE t
    IN  IF u = <<>> \/ Head(u) \notin DigitChars THEN NaN
        ELSE IF signed /\ Head(t) = "-" THEN Number(0 - DigitsValue(u, 0))
        ELSE Number(DigitsValue(u, 0))

\* how a repository operation completes
Value(v) == [kind |-> "return", value |-> v, message |-> ""]
Raise(m) == [kind |-> "throw", value |-> <<>>, message |-> m]
\* not completed: the operation goes on to its next await
GoOn == [kind |-> "continue", value |-> <<>>, message |-> ""]

InvalidIdMessage == "A valid numeric case ID is required."
CommentsErrorMessage == "Gat ekki sótt umsagnir fyrir mál."
NoCommentPlaceholder == "Engin athugasemd fylgdi."

\* the existence test reduced to "the query went through"
Found_AnySuccess(meta) == meta.success

\* line 67: !!meta.data?.data?.consultationPortalCaseById?.id
Found(meta) ==
    Truthy(Prop(Prop(Prop(meta.data, "data"), "consultationPortalCaseById"), "id"))

\* the existence stage going on to the comments query whatever it was answered
AfterMeta_AlwaysGoesOn(c) ==
    IF c.kind = "throw" THEN Raise(c.err) ELSE GoOn

\* the existence stage with a 404 taken for "no comments"
AfterMeta_NotFoundIsEmpty(c) ==
    IF c.kind = "throw" THEN Raise(c.err)
    ELSE IF ~c.resp.success /\ c.resp.status = 404 THEN Value(<<>>)
    ELSE IF ~c.resp.success THEN Raise(CommentsErrorMessage)
    ELSE IF ~Found(c.resp) THEN Value(<<>>)
    ELSE GoOn

\* lines 66-68, after `await postGraphQL(GET_CASE_META, ...)` has completed as c
AfterMeta(c) ==
    IF c.kind = "throw" THEN Raise(c.err)
    ELSE IF ~c.resp.success THEN Raise(CommentsErrorMessage)
    ELSE IF ~Found(c.resp) THEN Value(<<>>)
    ELSE GoOn

\* line 85: adv.data?.data?.consultationPortalAdviceByCaseId ?? []
AdviceItems(adv) ==
    Coalesce(Prop(Prop(adv.data, "data"), "consultationPortalAdviceByCaseId"),
             JArr(<<>>))

\* the mapping with the placeholder given for a null or missing body only
MapAdvice_PlaceholderForNullOnly(a, id) ==
    [id |-> Prop(a, "id"),
     caseId |-> id,
     contact |-> Coalesce(Prop(a, "participantName"), JStr("")),
     comment |-> Coalesce(Prop(a, "content"), JStr(NoCommentPlaceholder)),
     created |-> Prop(a, "created"),
     attachments |-> <<>>]

\* lines 88-95: one upstream record as a CaseComment
MapAdvice(a, id) ==
    [id |-> Prop(a, "id"),
     caseId |-> id,
     contact |-> Coalesce(Prop(a, "participantName"), JStr("")),
     comment |-> IF Truthy(Prop(a, "content")) THEN Prop(a, "content")
                 ELSE JStr(NoCommentPlaceholder),
     created |-> Prop(a, "created"),
     attachments |-> <<>>]

\* the comments stage raising when there is nothing to map
AfterAdvices_EmptyIsError(c, id) ==
    IF c.kind = "throw" THEN Raise(c.err)
    ELSE IF ~c.resp.success THEN Raise(CommentsErrorMessage)
    ELSE LET items == AdviceItems(c.resp)
         IN  IF items.t # "array" \/ Len(items.items) = 0 THEN Raise(CommentsErrorMessage)
             ELSE Value([i \in 1..Len(items.items) |-> MapAdvice(items.items[i], id)])

\* lines 83-95, after `await postGraphQL(GET_CASE_ADVICES_MINIMAL, ...)` has completed as c
AfterAdvices(c, id) ==
    IF c.kind = "throw" THEN Raise(c.err)
    ELSE IF ~c.resp.success THEN Raise(CommentsErrorMessage)
    ELSE LET items == AdviceItems(c.resp)
         IN  IF items.t # "array" \/ Len(items.items) = 0 THEN Value(<<>>)
             ELSE Value([i \in 1..Len(items.items) |-> MapAdvice(items.items[i], id)])

----------------------------------------------------------------------------
(* The case repository: searchCases and fetchCaseById (rssService.ts      *)
(* lines 7-20).                                                           *)

SearchCasesErrorMessage == "Gat ekki sótt málalista."
CaseIdRequiredMessage == "A valid case ID is required."

\* the id string as it is interpolated into a template literal
RECURSIVE IdText(_)
IdText(s) == IF s = <<>> THEN "" ELSE Head(s) \o IdText(Tail(s))

CaseFetchErrorMessage(id) == "Gat ekki sótt mál með ID: " \o IdText(id) \o "."
CaseNotFoundMessage(id) == "Ekkert mál fannst með ID: " \o IdText(id) \o "."

\* searchCases raising when the payload has no cases collection
AfterSearch_MissingIsError(c) ==
    IF c.kind = "throw" THEN Raise(c.err)
    ELSE IF ~c.resp.success THEN Raise(SearchCasesErrorMessage)
    ELSE LET cases == Prop(c.resp.data, "cases")
         IN  IF ~Truthy(cases) THEN Raise(SearchCasesErrorMessage)
             ELSE IF cases.t = "array" THEN Value(cases.items)
             ELSE Value(cases)

\* lines 10-11, after `await apiClient.get('/api/cases', params)` has
\* completed as c: res.data?.cases || []
AfterSearch(c) ==
    IF c.kind = "throw" THEN Raise(c.err)
    ELSE IF ~c.resp.success THEN Raise(SearchCasesErrorMessage)
    ELSE LET cases == Prop(c.resp.data, "cases")
         IN  IF ~Truthy(cases) THEN Value(<<>>)
             ELSE IF cases.t = "array" THEN Value(cases.items)
             ELSE Value(cases)

\* fetchCaseById returning whatever payload a successful outcome carries
AfterCaseById_NoPayloadCheck(c, id) ==
    IF c.kind = "throw" THEN Raise(c.err)
    ELSE IF ~c.resp.success THEN Raise(CaseFetchErrorMessage(id))
    ELSE Value(c.resp.data)

\* lines 17-19, after `await apiClient.get(`/api/cases/${id}`)` has completed as c
AfterCaseById(c, id) ==
    IF c.kind = "throw" THEN Raise(c.err)
    ELSE IF ~c.resp.success THEN Raise(CaseFetchErrorMessage(id))
    ELSE IF ~Truthy(c.resp.data) THEN Raise(CaseNotFoundMessage(id))
    ELSE Value(c.resp.data)

----------------------------------------------------------------------------
(* State machine.                                                         *)

NoResult == [kind |-> "none", value |-> <<>>, message |-> ""]

Endpoints == {"/api/cases", "/api/cases/42"}
GraphQLEndpoint == "https://island.is/api/graphql"

GetRequest(endpoint) ==
    [method |-> "GET", target |-> endpoint, operationName |-> "", caseId |-> 0]
PostRequest(url, operationName, id) ==
    [method |-> "POST", target |-> url, operationName |-> operationName, caseId |-> id]

\* the component after its first render and its two effects: the state of
\* lines 54-65, loadAllCases waiting for searchCases, an empty list displayed
Mounted ==
    /\ allCases = <<>>
    /\ displayedCases = <<>>
    /\ selectedApiCase = JNull
    /\ caseDetails = JNull
    /\ althingiStatus = JNull
    /\ althingiReviewAnalysis = JNull
    /\ isLoadingCases = TRUE
    /\ isLoadingDetails = FALSE
    /\ isLoadingAlthingi = FALSE
    /\ isLoadingAlthingiReviews = FALSE
    /\ error = JNull
    /\ searchTerm = <<>>
    /\ loadPc = "await"
    /\ runs = <<>>
    /\ reviews = <<>>
    /\ selections = 0

\* the Chatbot as constructed (lines 10-13), before its effect has run
ChatConstructed ==
    /\ chat = JNull
    /\ messages = <<>>
    /\ input = <<>>
    /\ isLoading = FALSE
    /\ sends = <<>>

Init ==
    /\ op = "none"
    /\ pc = "idle"
    /\ arg = <<>>
    /\ caseId = 0
    /\ requests = <<>>
    /\ fetched = <<>>
    /\ outcomes = <<>>
    /\ result = NoResult
    /\ Mounted
    /\ ChatConstructed

\* a caller invokes apiClient.get(endpoint): the URL is built and fetch is awaited
GetCall(endpoint) ==
    /\ pc = "idle"
    /\ op' = "get"
    /\ pc' = "await"
    /\ requests' = <<GetRequest(endpoint)>>
    /\ UNCHANGED <<arg, caseId, fetched, outcomes, result>>
    /\ UNCHANGED <<uiVars, chatVars>>

\* the awaited fetch of get settles and get runs to its return
GetSettle(f) ==
    /\ op = "get" /\ pc = "await"
    /\ fetched' = Append(fetched, f)
    /\ outcomes' = Append(outcomes, get(f))
    /\ pc' = "done"
    /\ UNCHANGED <<op, arg, caseId, requests, result>>
    /\ UNCHANGED <<uiVars, chatVars>>

\* a caller invokes apiClient.post(url, body)
PostCall(url) ==
    /\ pc = "idle"
    /\ op' = "post"
    /\ pc' = "await"
    /\ requests' = <<PostRequest(url, "", 0)>>
    /\ UNCHANGED <<arg, caseId, fetched, outcomes, result>>
    /\ UNCHANGED <<uiVars, chatVars>>

\* the awaited fetch of post settles and post runs to its return
PostSettle(f) ==
    /\ op = "post" /\ pc = "await"
    /\ fetched' = Append(fetched, f)
    /\ outcomes' = Append(outcomes, post(f))
    /\ pc' = "done"
    /\ UNCHANGED <<op, arg, caseId, requests, result>>
    /\ UNCHANGED <<uiVars, chatVars>>

\* a caller invokes fetchCaseComments(id): lines 56-65, up to the first await
FetchCaseCommentsCall(id) ==
    /\ pc = "idle"
    /\ op' = "fetchCaseComments"
    /\ arg' = id
    /\ IF parseInt(id).nan
       THEN /\ result' = Raise(InvalidIdMessage)
            /\ pc' = "done"
            /\ UNCHANGED <<caseId, requests>>
       ELSE /\ caseId' = parseInt(id).n
            /\ requests' = <<PostRequest(GraphQLEndpoint, "CaseMeta", parseInt(id).n)>>
            /\ pc' = "awaitMeta"
            /\ UNCHANGED result
    /\ UNCHANGED <<fetched, outcomes>>
    /\ UNCHANGED <<uiVars, chatVars>>

\* the existence query settles: post returns, and lines 66-81 run up to the
\* second await or to the return
FetchCaseCommentsMeta(f) ==
    /\ op = "fetchCaseComments" /\ pc = "awaitMeta"
    /\ fetched' = Append(fetched, f)
    /\ outcomes' = Append(outcomes, post(f))
    /\ IF AfterMeta(post(f)) = GoOn
       THEN /\ requests' = Append(requests,
                                  PostRequest(GraphQLEndpoint, "CaseAdvices", caseId))
            /\ pc' = "awaitAdv"
            /\ UNCHANGED result
       ELSE /\ result' = AfterMeta(post(f))
            /\ pc' = "done"
            /\ UNCHANGED requests
    /\ UNCHANGED <<op, arg, caseId>>
    /\ UNCHANGED <<uiVars, chatVars>>

\* the comments query settles: post returns, and lines 83-96 run to the return
FetchCaseCommentsAdvices(f) ==
    /\ op = "fetchCaseComments" /\ pc = "awaitAdv"
    /\ fetched' = Append(fetched, f)
    /\ outcomes' = Append(outcomes, post(f))
    /\ result' = AfterAdvices(post(f), caseId)
    /\ pc' = "done"
    /\ UNCHANGED <<op, arg, caseId, requests>>
    /\ UNCHANGED <<uiVars, chatVars>>

\* searchCases with a second attempt after a failed outcome
SearchCasesSettle_RetryOnFailure(f) ==
    /\ op = "searchCases" /\ pc = "await"
    /\ fetched' = Append(fetched, f)
    /\ outcomes' = Append(outcomes, get(f))
    /\ IF get(f).kind = "return" /\ ~get(f).resp.success /\ Len(requests) = 1
       THEN /\ requests' = Append(requests, GetRequest("/api/cases"))
            /\ UNCHANGED <<pc, result>>
       ELSE /\ result' = AfterSearch(get(f))
            /\ pc' = "done"
            /\ UNCHANGED requests
    /\ UNCHANGED <<op, arg, caseId>>
    /\ UNCHANGED <<uiVars, chatVars>>

\* a caller invokes searchCases(): lines 8-9, up to the await
SearchCasesCall ==
    /\ pc = "idle"
    /\ op' = "searchCases"
    /\ pc' = "await"
    /\ requests' = <<GetRequest("/api/cases")>>
    /\ UNCHANGED <<arg, caseId, fetched, outcomes, result>>
    /\ UNCHANGED <<uiVars, chatVars>>

\* the awaited get settles, and lines 10-11 run to the return
SearchCasesSettle(f) ==
    /\ op = "searchCases" /\ pc = "await"
    /\ fetched' = Append(fetched, f)
    /\ outcomes' = Append(outcomes, get(f))
    /\ result' = AfterSearch(get(f))
    /\ pc' = "done"
    /\ UNCHANGED <<op, arg, caseId, requests>>
    /\ UNCHANGED <<uiVars, chatVars>>

\* a caller invokes fetchCaseById(id): lines 15-16, up to the await
FetchCaseByIdCall(id) ==
    /\ pc = "idle"
    /\ op' = "fetchCaseById"
    /\ arg' = id
    /\ IF id = <<>>
       THEN /\ result' = Raise(CaseIdRequiredMessage)
            /\ pc' = "done"
            /\ UNCHANGED requests
       ELSE /\ requests' = <<GetRequest("/api/cases/" \o IdText(id))>>
            /\ pc' = "await"
            /\ UNCHANGED result
    /\ UNCHANGED <<caseId, fetched, outcomes>>
    /\ UNCHANGED <<uiVars, chatVars>>

\* the awaited get settles, and lines 17-19 run to the return
FetchCaseByIdSettle(f) ==
    /\ op = "fetchCaseById" /\ pc = "await"
    /\ fetched' = Append(fetched, f)
    /\ outcomes' = Append(outcomes, get(f))
    /\ result' = AfterCaseById(get(f), arg)
    /\ pc' = "done"
    /\ UNCHANGED <<op, arg, caseId, requests>>
    /\ UNCHANGED <<uiVars, chatVars>>

\* the caller takes the completed operation's result; the next call starts afresh
Finish ==
    /\ pc = "done"
    /\ op' = "none"
    /\ pc' = "idle"
    /\ arg' = <<>>
    /\ caseId' = 0
    /\ requests' = <<>>
    /\ fetched' = <<>>
    /\ outcomes' = <<>>
    /\ result' = NoResult
    /\ UNCHANGED <<uiVars, chatVars>>

Next ==
    \/ \E e \in Endpoints : GetCall(e)
    \/ \E f \in FetchOutcomes : GetSettle(f)
    \/ PostCall(GraphQLEndpoint)
    \/ \E f \in FetchOutcomes : PostSettle(f)
    \/ \E id \in Ids : FetchCaseCommentsCall(id)
    \/ \E f \in FetchOutcomes : FetchCaseCommentsMeta(f)
    \/ \E f \in FetchOutcomes : FetchCaseCommentsAdvices(f)
    \/ SearchCasesCall
    \/ \E f \in FetchOutcomes : SearchCasesSettle(f)
    \/ \E id \in Ids : FetchCaseByIdCall(id)
    \/ \E f \in FetchOutcomes : FetchCaseByIdSettle(f)
    \/ Finish

Spec == Init /\ [][Next]_vars

----------------------------------------------------------------------------
(* The CaseLookup component: the displayed list (CaseLookup.tsx lines     *)
(* 87-111).  Names and search terms are sequences of characters.          *)

ApiCase(id, name, created) == [id |-> id, name |-> name, created |-> created]

\* the cases the upstream list is made of in the model: two with different
\* creation dates, one more sharing a date, two whose date cannot be parsed
CasePool ==
    { ApiCase(1, <<"a", "b">>, "2024-01-01"),
      ApiCase(2, <<"A">>, "2024-02-01"),
      ApiCase(3, <<"a", " ", "b">>, ""),
      ApiCase(4, <<"a">>, "óþekkt"),
      ApiCase(5, <<"B">>, "2024-01-01") }

\* the lists searchCases can resolve with: no case twice, at most n cases
CaseLists(n) ==
    UNION {{s \in [1..k -> CasePool] : \A i, j \in 1..k : s[i] = s[j] => i = j} : k \in 0..n}

TermChars == {"a", "B", " "}
SearchTerms(n) == UNION {[1..k -> TermChars] : k \in 0..n}

\* new Date(text).getTime(), in days since the epoch; NaN for a text that
\* is not a date
DateTime(text) ==
    CASE text = "2024-01-01" -> Number(19723)
      [] text = "2024-02-01" -> Number(19754)
      [] OTHER -> NaN

ToLowerChar(c) ==
    CASE c = "A" -> "a"
      [] c = "B" -> "b"
      [] OTHER -> c

\* String.prototype.toLowerCase, includes, trim
toLowerCase(s) == [i \in DOMAIN s |-> ToLowerChar(s[i])]
includes(s, t) == \E i \in 0..(Len(s) - Len(t)) : SubSeq(s, i + 1, i + Len(t)) = t
trim(s) == TrimEnd(TrimStart(s))

\* lines 88-95: the filter, applied when the trimmed term is not empty
Filtered(cases, term) ==
    IF trim(term) # <<>>
    THEN SelectSeq(cases, LAMBDA c : includes(toLowerCase(c.name), toLowerCase(term)))
    ELSE cases

\* the comparator with the two dates exchanged in the difference
compare_OldestFirst(a, b) ==
    LET dateA == DateTime(a.created)
        dateB == DateTime(b.created)
    IN  IF dateA.nan THEN 1
        ELSE IF dateB.nan THEN -1
        ELSE dateA.n - dateB.n

\* lines 98-107: the comparator handed to sort
compare(a, b) ==
    LET dateA == DateTime(a.created)
        dateB == DateTime(b.created)
    IN  IF dateA.nan THEN 1
        ELSE IF dateB.nan THEN -1
        ELSE dateB.n - dateA.n

\* line 98: Array.prototype.sort(compare).  The sort is stable and puts a
\* before b whenever the comparator says so consistently.  For two cases
\* with unparseable dates the comparator answers 1 both ways, an
\* inconsistent comparison for which the resulting order is
\* implementation-defined: either order is an outcome.
SortOutcomes(s) ==
    LET Ordered(g) ==
            \A i, j \in 1..Len(s) : i < j =>
                LET a == s[g[i]]
                    b == s[g[j]]
                IN  /\ ~(compare(a, b) > 0 /\ compare(b, a) < 0)
                    /\ (compare(a, b) = 0 /\ compare(b, a) = 0) => g[i] < g[j]
    IN  {[i \in 1..Len(s) |-> s[g[i]]] : g \in {h \in Permutations(1..Len(s)) : Ordered(h)}}

\* effect 2 (lines 87-111): what setDisplayedCases can be called with
DisplayedOutcomes(cases, term) == SortOutcomes(Filtered(cases, term))

----------------------------------------------------------------------------
(* The CaseLookup component: loading, selecting and analysing             *)
(* (CaseLookup.tsx lines 69-84 and 114-172).  Each await is a point where *)
(* the handler is suspended and any other event of the component can run. *)

\* what the awaited calls resolve with, named by the arguments they were given
Comments(id, fetch) == [t |-> "comments", caseId |-> id, fetch |-> fetch]
Details(caseItem, comments) == [t |-> "details", caseId |-> caseItem.id, comments |-> comments]
Status(title) == [t |-> "status", title |-> title]
Analysis(title) == [t |-> "analysis", title |-> title]

\* how an awaited promise settles
Settlements == {"ok", "failed"}

AnalysisErrorMessage == "Gat ekki búið til ítarlega greiningu fyrir valið mál."
ReviewsErrorMessage == "Gat ekki greint umsagnir frá Alþingi."

\* the awaited searchCases of loadAllCases settles: lines 75-81, then effect 2
LoadAllCasesSettle(r) ==
    /\ loadPc = "await"
    /\ loadPc' = IF r.kind = "return" THEN "done" ELSE "failed"
    /\ isLoadingCases' = FALSE
    /\ IF r.kind = "return"
       THEN /\ allCases' = r.value
            /\ UNCHANGED error
       ELSE /\ allCases' = <<>>
            /\ error' = JStr(r.message)
    /\ displayedCases' \in DisplayedOutcomes(allCases', searchTerm)
    /\ UNCHANGED <<searchTerm, selectedApiCase, caseDetails, althingiStatus,
                   althingiReviewAnalysis, flagVars, runs, reviews, selections>>
    /\ UNCHANGED <<repoVars, chatVars>>

\* the user edits the search field (line 247), then effect 2
ChangeSearchTerm(term) ==
    /\ term # searchTerm
    /\ searchTerm' = term
    /\ displayedCases' \in DisplayedOutcomes(allCases, term)
    /\ UNCHANGED <<allCases, isLoadingCases, loadPc, panelVars, flagVars, runs,
                   reviews, selections>>
    /\ UNCHANGED <<repoVars, chatVars>>

\* handleSelectCase resetting the loading flags of the analysis as well
HandleSelectCase_ClearsLoading(caseItem) ==
    /\ ~isLoadingCases
    /\ \E i \in DOMAIN displayedCases : displayedCases[i] = caseItem
    /\ selections < MaxSelections
    /\ selections' = selections + 1
    /\ selectedApiCase' = caseItem
    /\ caseDetails' = JNull
    /\ althingiStatus' = JNull
    /\ althingiReviewAnalysis' = JNull
    /\ error' = JNull
    /\ isLoadingDetails' = FALSE
    /\ isLoadingAlthingi' = FALSE
    /\ UNCHANGED <<listVars, isLoadingAlthingiReviews, runs, reviews>>
    /\ UNCHANGED <<repoVars, chatVars>>

\* the user clicks a case of the displayed list (lines 256-262): handleSelectCase
HandleSelectCase(caseItem) ==
    /\ ~isLoadingCases
    /\ \E i \in DOMAIN displayedCases : displayedCases[i] = caseItem
    /\ selections < MaxSelections
    /\ selections' = selections + 1
    /\ selectedApiCase' = caseItem
    /\ caseDetails' = JNull
    /\ althingiStatus' = JNull
    /\ althingiReviewAnalysis' = JNull
    /\ error' = JNull
    /\ UNCHANGED <<listVars, flagVars, runs, reviews>>
    /\ UNCHANGED <<repoVars, chatVars>>

\* handleStartAnalysis reachable whenever a case is selected: the handler's
\* own test (line 126) without the condition under which its button is rendered
HandleStartAnalysis_HandlerGuardOnly ==
    /\ selectedApiCase # JNull
    /\ Len(runs) < MaxRuns
    /\ error' = JNull
    /\ isLoadingDetails' = TRUE
    /\ isLoadingAlthingi' = TRUE
    /\ caseDetails' = JNull
    /\ althingiStatus' = JNull
    /\ althingiReviewAnalysis' = JNull
    /\ runs' = Append(runs, [caseItem |-> selectedApiCase, sel |-> selections,
                             pc |-> "comments", fetchId |-> selectedApiCase.id,
                             comments |-> JNull, passed |-> JNull,
                             details |-> "none", status |-> "none", first |-> "none"])
    /\ UNCHANGED <<listVars, selectedApiCase, isLoadingAlthingiReviews, reviews, selections>>
    /\ UNCHANGED <<repoVars, chatVars>>

\* the user clicks the start-analysis button (rendered under the condition
\* of lines 283-339): handleStartAnalysis up to its first await
HandleStartAnalysis ==
    /\ selectedApiCase # JNull
    /\ caseDetails = JNull /\ ~isLoadingDetails /\ ~isLoadingAlthingi
    /\ Len(runs) < MaxRuns
    /\ error' = JNull
    /\ isLoadingDetails' = TRUE
    /\ isLoadingAlthingi' = TRUE
    /\ caseDetails' = JNull
    /\ althingiStatus' = JNull
    /\ althingiReviewAnalysis' = JNull
    /\ runs' = Append(runs, [caseItem |-> selectedApiCase, sel |-> selections,
                             pc |-> "comments", fetchId |-> selectedApiCase.id,
                             comments |-> JNull, passed |-> JNull,
                             details |-> "none", status |-> "none", first |-> "none"])
    /\ UNCHANGED <<listVars, selectedApiCase, isLoadingAlthingiReviews, reviews, selections>>
    /\ UNCHANGED <<repoVars, chatVars>>

\* the comments stage without the finally block
CommentsSettle_NoFinally(r, o) ==
    /\ r \in DOMAIN runs /\ runs[r].pc = "comments"
    /\ IF o = "ok"
       THEN /\ runs' = [runs EXCEPT ![r].pc = "siblings",
                                    ![r].comments = Comments(runs[r].fetchId, r),
                                    ![r].passed = Comments(runs[r].fetchId, r),
                                    ![r].details = "pending",
                                    ![r].status = "pending"]
            /\ UNCHANGED error
       ELSE /\ runs' = [runs EXCEPT ![r].pc = "done"]
            /\ error' = JStr(AnalysisErrorMessage)
    /\ UNCHANGED <<listVars, selectedApiCase, caseDetails, althingiStatus,
                   althingiReviewAnalysis, flagVars, reviews, selections>>
    /\ UNCHANGED <<repoVars, chatVars>>

\* the comments stage with the comments of the first run kept and handed to
\* every later analysis
CommentsSettle_Cached(r, o) ==
    /\ r \in DOMAIN runs /\ runs[r].pc = "comments"
    /\ IF o = "ok"
       THEN /\ runs' = [runs EXCEPT ![r].pc = "siblings",
                                    ![r].comments = Comments(runs[r].fetchId, r),
                                    ![r].passed = IF runs[1].comments # JNull
                                                  THEN runs[1].comments
                                                  ELSE Comments(runs[r].fetchId, r),
                                    ![r].details = "pending",
                                    ![r].status = "pending"]
            /\ UNCHANGED <<error, isLoadingDetails, isLoadingAlthingi>>
       ELSE /\ runs' = [runs EXCEPT ![r].pc = "done"]
            /\ error' = JStr(AnalysisErrorMessage)
            /\ isLoadingDetails' = FALSE
            /\ isLoadingAlthingi' = FALSE
    /\ UNCHANGED <<listVars, selectedApiCase, caseDetails, althingiStatus,
                   althingiReviewAnalysis, isLoadingAlthingiReviews, reviews, selections>>
    /\ UNCHANGED <<repoVars, chatVars>>

\* the awaited fetchCaseComments of run r settles: lines 137-143 up to the
\* second await, or lines 147-152
CommentsSettle(r, o) ==
    /\ r \in DOMAIN runs /\ runs[r].pc = "comments"
    /\ IF o = "ok"
       THEN /\ runs' = [runs EXCEPT ![r].pc = "siblings",
                                    ![r].comments = Comments(runs[r].fetchId, r),
                                    ![r].passed = Comments(runs[r].fetchId, r),
                                    ![r].details = "pending",
                                    ![r].status = "pending"]
            /\ UNCHANGED <<error, isLoadingDetails, isLoadingAlthingi>>
       ELSE /\ runs' = [runs EXCEPT ![r].pc = "done"]
            /\ error' = JStr(AnalysisErrorMessage)
            /\ isLoadingDetails' = FALSE
            /\ isLoadingAlthingi' = FALSE
    /\ UNCHANGED <<listVars, selectedApiCase, caseDetails, althingiStatus,
                   althingiReviewAnalysis, isLoadingAlthingiReviews, reviews, selections>>
    /\ UNCHANGED <<repoVars, chatVars>>

\* the two calls awaited one by one: each result is stored as it arrives
SiblingSettle_StoredOnArrival(r, which, o) ==
    /\ r \in DOMAIN runs /\ runs[r][which] = "pending"
    /\ LET run == [runs[r] EXCEPT ![which] = o,
                                  !.first = IF @ = "none" THEN which ELSE @]
           last == run.details # "pending" /\ run.status # "pending"
       IN  /\ runs' = [runs EXCEPT ![r] = [run EXCEPT !.pc = IF last THEN "done" ELSE @]]
           /\ caseDetails' = IF which = "details" /\ o = "ok"
                             THEN Details(run.caseItem, run.passed) ELSE caseDetails
           /\ althingiStatus' = IF which = "status" /\ o = "ok"
                                THEN Status(run.caseItem.name) ELSE althingiStatus
           /\ error' = IF o = "failed" THEN JStr(AnalysisErrorMessage) ELSE error
           /\ isLoadingDetails' = IF last THEN FALSE ELSE isLoadingDetails
           /\ isLoadingAlthingi' = IF last THEN FALSE ELSE isLoadingAlthingi
    /\ UNCHANGED <<listVars, selectedApiCase, althingiReviewAnalysis,
                   isLoadingAlthingiReviews, reviews, selections>>
    /\ UNCHANGED <<repoVars, chatVars>>

\* one of the two calls under Promise.all of run r settles (which is
\* "details" for summarizeCaseDetails, "status" for searchAlthingi).
\* Promise.all rejects with the first rejection and resolves with the last
\* fulfilment; the handler then runs lines 145-146 or 147-149, and 150-152.
SiblingSettle(r, which, o) ==
    /\ r \in DOMAIN runs /\ runs[r][which] = "pending"
    /\ LET run == [runs[r] EXCEPT ![which] = o,
                                  !.first = IF @ = "none" THEN which ELSE @]
       IN  IF runs[r].pc = "done"
           THEN /\ runs' = [runs EXCEPT ![r] = run]
                /\ UNCHANGED <<caseDetails, althingiStatus, error,
                               isLoadingDetails, isLoadingAlthingi>>
           ELSE IF o = "failed"
           THEN /\ runs' = [runs EXCEPT ![r] = [run EXCEPT !.pc = "done"]]
                /\ error' = JStr(AnalysisErrorMessage)
                /\ isLoadingDetails' = FALSE
                /\ isLoadingAlthingi' = FALSE
                /\ UNCHANGED <<caseDetails, althingiStatus>>
           ELSE IF run.details = "ok" /\ run.status = "ok"
           THEN /\ runs' = [runs EXCEPT ![r] = [run EXCEPT !.pc = "done"]]
                /\ caseDetails' = Details(run.caseItem, run.passed)
                /\ althingiStatus' = Status(run.caseItem.name)
                /\ isLoadingDetails' = FALSE
                /\ isLoadingAlthingi' = FALSE
                /\ UNCHANGED error
           ELSE /\ runs' = [runs EXCEPT ![r] = run]
                /\ UNCHANGED <<caseDetails, althingiStatus, error,
                               isLoadingDetails, isLoadingAlthingi>>
    /\ UNCHANGED <<listVars, selectedApiCase, althingiReviewAnalysis,
                   isLoadingAlthingiReviews, reviews, selections>>
    /\ UNCHANGED <<repoVars, chatVars>>

\* the user clicks the review-analysis button (rendered under the condition
\* of lines 283-388): handleAnalyzeAlthingiReviews up to its await
HandleAnalyzeAlthingiReviews ==
    /\ selectedApiCase # JNull
    /\ ~isLoadingAlthingi /\ althingiStatus # JNull
    /\ althingiReviewAnalysis = JNull /\ ~isLoadingAlthingiReviews
    /\ Len(reviews) < MaxReviews
    /\ isLoadingAlthingiReviews' = TRUE
    /\ althingiReviewAnalysis' = JNull
    /\ error' = JNull
    /\ reviews' = Append(reviews, [caseItem |-> selectedApiCase, sel |-> selections,
                                   pc |-> "await"])
    /\ UNCHANGED <<listVars, selectedApiCase, caseDetails, althingiStatus,
                   isLoadingDetails, isLoadingAlthingi, runs, selections>>
    /\ UNCHANGED <<repoVars, chatVars>>

\* the awaited analyzeAlthingiReviews of review run k settles: lines 165-171
ReviewsSettle(k, o) ==
    /\ k \in DOMAIN reviews /\ reviews[k].pc = "await"
    /\ reviews' = [reviews EXCEPT ![k].pc = "done"]
    /\ isLoadingAlthingiReviews' = FALSE
    /\ IF o = "ok"
       THEN /\ althingiReviewAnalysis' = Analysis(reviews[k].caseItem.name)
            /\ UNCHANGED error
       ELSE /\ error' = JStr(ReviewsErrorMessage)
            /\ UNCHANGED althingiReviewAnalysis
    /\ UNCHANGED <<listVars, selectedApiCase, caseDetails, althingiStatus,
                   isLoadingDetails, isLoadingAlthingi, runs, selections>>
    /\ UNCHANGED <<repoVars, chatVars>>

\* The displayed list on its own: every list searchCases can resolve with,
\* every search term.
ListLoadOutcomes ==
    {Value(l) : l \in CaseLists(MaxCases)} \cup {Raise(SearchCasesErrorMessage)}

NextList ==
    \/ \E r \in ListLoadOutcomes : LoadAllCasesSettle(r)
    \/ \E term \in SearchTerms(MaxTermLen) : ChangeSearchTerm(term)

SpecList == Init /\ [][NextList]_vars

\* The component with its handlers: a list of two cases, every interleaving
\* of the user's clicks with the settlements of the pending calls.
CaseOf(id) == CHOOSE c \in CasePool : c.id = id

LookupLoadOutcomes ==
    {Value(<<CaseOf(2), CaseOf(4)>>), Raise(SearchCasesErrorMessage)}

NextLookup ==
    \/ \E r \in LookupLoadOutcomes : LoadAllCasesSettle(r)
    \/ \E term \in {<<>>, <<"B">>} : ChangeSearchTerm(term)
    \/ \E c \in CasePool : HandleSelectCase(c)
    \/ HandleStartAnalysis
    \/ \E r \in 1..MaxRuns, o \in Settlements : CommentsSettle(r, o)
    \/ \E r \in 1..MaxRuns, which \in {"details", "status"}, o \in Settlements :
          SiblingSettle(r, which, o)
    \/ HandleAnalyzeAlthingiReviews
    \/ \E k \in 1..MaxReviews, o \in Settlements : ReviewsSettle(k, o)

SpecLookup == Init /\ [][NextLookup]_vars

----------------------------------------------------------------------------
(* The Chatbot component (src/unnamed/part_000).  Texts are sequences of  *)
(* characters or of whole pieces of text; `+=` on strings is \o.          *)

\* how many messages the user sends, and how many chunks one reply streams
MaxSends == 2
MaxChunks == 2

\* lines 18-23 (one of the four example questions), and what the user types
ExampleQuestions == {<<"Hvað er stjórnarsáttmáli?">>}
TypedTexts == {<<>>, <<" ">>, <<"h", "i">>, <<" ", "h", "i">>}

\* the chunks of a streamed reply
ChunkTexts == {<<"Já">>, <<".">>}

ChatMessage(role, text) == [role |-> role, text |-> text]

\* line 28 and line 62
Greeting ==
    ChatMessage("model", <<"Halló! Ég heiti Pólitíkus. Hvernig get ég aðstoðað þig í dag?">>)
SendErrorMessage ==
    ChatMessage("model", <<"Því miður, eitthvað fór úrskeiðis. Vinsamlegast reyndu aftur.">>)

\* the effect of lines 25-30, run once after the first render
ChatEffect ==
    /\ chat = JNull
    /\ chat' = [t |-> "chat"]
    /\ messages' = <<Greeting>>
    /\ UNCHANGED <<input, isLoading, sends>>
    /\ UNCHANGED <<repoVars, uiVars>>

\* the input field's onChange (line 113); the field is disabled while
\* isLoading (line 117)
ChangeInput(text) ==
    /\ ~isLoading
    /\ input' = text
    /\ UNCHANGED <<chat, messages, isLoading, sends>>
    /\ UNCHANGED <<repoVars, uiVars>>

\* the click on an example question (line 83); these buttons are never disabled
ClickExample(q) ==
    /\ input' = q
    /\ UNCHANGED <<chat, messages, isLoading, sends>>
    /\ UNCHANGED <<repoVars, uiVars>>

\* handleSend, lines 38-47, up to the await of sendMessageStream.  `at` is the
\* length of the history when the send was accepted.
HandleSend ==
    IF trim(input) = <<>> \/ chat = JNull \/ isLoading
    THEN UNCHANGED vars
    ELSE /\ Len(sends) < MaxSends
         /\ messages' = Append(messages, ChatMessage("user", input))
         /\ input' = <<>>
         /\ isLoading' = TRUE
         /\ sends' = Append(sends, [message |-> input, at |-> Len(messages),
                                    pc |-> "awaitStream", modelResponse |-> <<>>])
         /\ UNCHANGED chat
         /\ UNCHANGED <<repoVars, uiVars>>

\* sendMessageStream settles (line 47): the stream opens and the empty reply
\* is appended (lines 49-50), or the call rejects and the catch and the
\* finally run (lines 60-66)
StreamSettle(k, opened) ==
    /\ k \in DOMAIN sends
    /\ sends[k].pc = "awaitStream"
    /\ IF opened
       THEN /\ messages' = Append(messages, ChatMessage("model", <<>>))
            /\ sends' = [sends EXCEPT ![k].pc = "streaming"]
            /\ UNCHANGED isLoading
       ELSE /\ messages' = Append(messages, SendErrorMessage)
            /\ sends' = [sends EXCEPT ![k].pc = "done"]
            /\ isLoading' = FALSE
    /\ UNCHANGED <<chat, input>>
    /\ UNCHANGED <<repoVars, uiVars>>

\* the stream yields a chunk (lines 52-58): the text of the last message of
\* the history is replaced by the response accumulated so far
StreamChunk(k, c) ==
    /\ k \in DOMAIN sends
    /\ sends[k].pc = "streaming"
    /\ Len(sends[k].modelResponse) < MaxChunks
    /\ sends' = [sends EXCEPT ![k].modelResponse = @ \o c]
    /\ messages' = [messages EXCEPT ![Len(messages)].text = sends'[k].modelResponse]
    /\ UNCHANGED <<chat, input, isLoading>>
    /\ UNCHANGED <<repoVars, uiVars>>

\* the stream is exhausted: the loop ends and the finally runs (lines 64-66)
StreamEnd(k) ==
    /\ k \in DOMAIN sends
    /\ sends[k].pc = "streaming"
    /\ sends' = [sends EXCEPT ![k].pc = "done"]
    /\ isLoading' = FALSE
    /\ UNCHANGED <<chat, messages, input>>
    /\ UNCHANGED <<repoVars, uiVars>>

\* the stream fails while it is iterated: the catch and the finally run
\* (lines 60-66)
StreamFail(k) ==
    /\ k \in DOMAIN sends
    /\ sends[k].pc = "streaming"
    /\ messages' = Append(messages, SendErrorMessage)
    /\ sends' = [sends EXCEPT ![k].pc = "done"]
    /\ isLoading' = FALSE
    /\ UNCHANGED <<chat, input>>
    /\ UNCHANGED <<repoVars, uiVars>>

NextChat ==
    \/ ChatEffect
    \/ \E text \in TypedTexts : ChangeInput(text)
    \/ \E q \in ExampleQuestions : ClickExample(q)
    \/ HandleSend
    \/ \E k \in 1..MaxSends, opened \in BOOLEAN : StreamSettle(k, opened)
    \/ \E k \in 1..MaxSends, c \in ChunkTexts : StreamChunk(k, c)
    \/ \E k \in 1..MaxSends : StreamEnd(k)
    \/ \E k \in 1..MaxSends : StreamFail(k)

SpecChat == Init /\ [][NextChat]_vars

----------------------------------------------------------------------------
(* The URL of a GET request (apiClient.ts lines 36-47).  A parameter map  *)
(* is the sequence of its own properties <<key, value>> in the order      *)
(* for-in enumerates them; keys and string values are sequences of        *)
(* characters, and a URL is the sequence of the pieces it is              *)
(* concatenated from.                                                     *)

\* how many parameters a caller passes to get
MaxParams == 2

CORS_PROXY_URL == "https://corsproxy.io/?"
API_BASE_URL == "https://samradapi.island.is"

ParamKeys == {<<"a">>, <<"a", " ", "b">>, <<"&", "=">>}
ParamValues == {JStr(<<>>), JStr(<<"+", "%">>), JStr(<<"é", "1">>), JNum(1500)}

\* the parameter maps with n properties
ParamMaps(n) ==
    {p \in [1..n -> ParamKeys \X ParamValues] :
        \A i, j \in 1..n : p[i][1] = p[j][1] => i = j}

\* String(n) for a number n >= 0
RECURSIVE DigitsOf(_)
DigitsOf(n) ==
    LET d == <<"0", "1", "2", "3", "4", "5", "6", "7", "8", "9">>[(n % 10) + 1]
    IN  IF n < 10 THEN <<d>> ELSE Append(DigitsOf(n \div 10), d)

\* String(params[key]), line 40
StringOf(v) == IF v.t = "number" THEN DigitsOf(v.n) ELSE v.s

\* the serializer writing every character as it is
EncodeChar_Raw(c) == <<c>>

\* the application/x-www-form-urlencoded serializer of URLSearchParams, for
\* one character: letters and digits stay, a space becomes "+", every other
\* character becomes the percent-encoded bytes of its UTF-8 form
EncodeChar(c) ==
    CASE c = " " -> <<"+">>
      [] c = "&" -> <<"%", "2", "6">>
      [] c = "=" -> <<"%", "3", "D">>
      [] c = "+" -> <<"%", "2", "B">>
      [] c = "%" -> <<"%", "2", "5">>
      [] c = "é" -> <<"%", "C", "3", "%", "A", "9">>
      [] OTHER   -> <<c>>

RECURSIVE Encode(_)
Encode(s) == IF s = <<>> THEN <<>> ELSE EncodeChar(Head(s)) \o Encode(Tail(s))

\* query.toString(), line 44, of the pairs appended by lines 37-42
RECURSIVE queryString(_)
queryString(params) ==
    IF params = <<>> THEN <<>>
    ELSE LET pair == Encode(Head(params)[1]) \o <<"=">> \o Encode(StringOf(Head(params)[2]))
         IN  IF Len(params) = 1 THEN pair
             ELSE pair \o <<"&">> \o queryString(Tail(params))

\* lines 45-47: targetUrl behind the proxy prefix
finalApiUrl(endpoint, params) ==
    <<CORS_PROXY_URL, API_BASE_URL, endpoint>> \o
        (IF queryString(params) # <<>> THEN <<"?">> \o queryString(params) ELSE <<>>)

GetRequestWithParams(endpoint, params) ==
    [method |-> "GET", target |-> endpoint, operationName |-> "", caseId |-> 0,
     params |-> params, url |-> finalApiUrl(endpoint, params)]

\* a caller invokes apiClient.get(endpoint, params): lines 36-50, up to the
\* await of fetch
GetWithParamsCall(endpoint, params) ==
    /\ pc = "idle"
    /\ op' = "get"
    /\ pc' = "await"
    /\ requests' = <<GetRequestWithParams(endpoint, params)>>
    /\ UNCHANGED <<arg, caseId, fetched, outcomes, result>>
    /\ UNCHANGED <<uiVars, chatVars>>

----------------------------------------------------------------------------
(* The API client that throws (apiClient.ts lines 145-235) and the        *)
(* fetchCaseComments that reads the REST submissions through it           *)
(* (src/unnamed/part_001 lines 64-84).                                    *)

\* lines 155-165
HttpError(message, status, body) ==
    [name |-> "HttpError", message |-> message, status |-> status, body |-> body]
\* what fetch, response.text() and response.json() throw, and `new Error(m)`
Thrown(name, message) == [name |-> name, message |-> message]

\* the try block of the throwing get (lines 200-220)
ThrowingGetTry(f) ==
    IF f.kind = "reject" THEN Throw(Thrown("TypeError", f.err))
    ELSE IF ~ResponseOk(f.status)
    THEN IF ~f.bodyOk THEN Throw(Thrown("TypeError", f.err))
         ELSE Throw(HttpError(HttpErrorMessage(f.status), f.status, f.body))
    ELSE IF ~f.bodyOk THEN Throw(Thrown("TypeError", f.err))
    ELSE IF ~JSONParse(f.body).ok THEN Throw(Thrown("SyntaxError", JSONParse(f.body).err))
    ELSE Return(JSONParse(f.body).val)

\* the catch block wrapping everything it catches
ThrowingGetCatch_WrapsAll(c) ==
    IF c.kind = "throw" THEN Throw(Thrown("Error", NetworkErrorMessage)) ELSE c

\* the catch block of the throwing get (lines 222-230)
ThrowingGetCatch(c) ==
    IF c.kind = "throw"
    THEN IF c.err.name = "HttpError" THEN Throw(c.err)
         ELSE Throw(Thrown("Error", NetworkErrorMessage))
    ELSE c

ThrowingGet(f) == ThrowingGetCatch(ThrowingGetTry(f))

\* error.status, undefined for an error without that field
StatusOf(err) == IF "status" \in DOMAIN err THEN JNum(err.status) ELSE JUndef

\* part_001 line 66
SubmissionsEndpoint(id) == "/api/cases/" \o IdText(id) \o "/submissions"

\* fetchCaseComments returning [] for every HTTP failure
AfterSubmissions_AnyStatusIsEmpty(c) ==
    IF c.kind = "return"
    THEN Value(IF Truthy(c.resp) THEN c.resp ELSE JArr(<<>>))
    ELSE IF StatusOf(c.err) # JUndef THEN Value(JArr(<<>>))
    ELSE Raise(CommentsErrorMessage)

\* part_001 lines 67-83, after `await apiClient.get(...)` has completed as c
AfterSubmissions(c) ==
    IF c.kind = "return"
    THEN Value(IF Truthy(c.resp) THEN c.resp ELSE JArr(<<>>))
    ELSE IF StatusOf(c.err) = JNum(404) THEN Value(JArr(<<>>))
    ELSE Raise(CommentsErrorMessage)

\* a caller invokes the throwing apiClient.get(endpoint)
ThrowingGetCall(endpoint) ==
    /\ pc = "idle"
    /\ op' = "throwingGet"
    /\ pc' = "await"
    /\ requests' = <<GetRequest(endpoint)>>
    /\ UNCHANGED <<arg, caseId, fetched, outcomes, result>>
    /\ UNCHANGED <<uiVars, chatVars>>

\* its awaited fetch settles and get runs to its return or throw
ThrowingGetSettle(f) ==
    /\ op = "throwingGet" /\ pc = "await"
    /\ fetched' = Append(fetched, f)
    /\ outcomes' = Append(outcomes, ThrowingGet(f))
    /\ pc' = "done"
    /\ UNCHANGED <<op, arg, caseId, requests, result>>
    /\ UNCHANGED <<uiVars, chatVars>>

\* a caller invokes the REST fetchCaseComments(id): part_001 lines 64-66
RestCommentsCall(id) ==
    /\ pc = "idle"
    /\ op' = "restFetchCaseComments"
    /\ arg' = id
    /\ pc' = "await"
    /\ requests' = <<GetRequest(SubmissionsEndpoint(id))>>
    /\ UNCHANGED <<caseId, fetched, outcomes, result>>
    /\ UNCHANGED <<uiVars, chatVars>>

\* the get settles and fetchCaseComments runs to its return or throw
RestCommentsSettle(f) ==
    /\ op = "restFetchCaseComments" /\ pc = "await"
    /\ fetched' = Append(fetched, f)
    /\ outcomes' = Append(outcomes, ThrowingGet(f))
    /\ result' = AfterSubmissions(ThrowingGet(f))
    /\ pc' = "done"
    /\ UNCHANGED <<op, arg, caseId, requests>>
    /\ UNCHANGED <<uiVars, chatVars>>

----------------------------------------------------------------------------
(* The fetchCaseComments that reads the comments with one GraphQL query   *)
(* (geminiService.ts lines 293-389).  File names are sequences of         *)
(* characters.                                                            *)

\* longest name of an attached file
MaxNameLen == 2

NameChars == {"a", "."}
FileNames == UNION {[1..n -> NameChars] : n \in 0..MaxNameLen}

\* one entry of adviceFiles, and the lists of them upstream sends
AdviceFile(id, name) == JObj("id" :> JStr(id) @@ "name" :> JStr(name))
AdviceFileLists ==
    {<<>>} \cup {<<AdviceFile("f1", n)>> : n \in FileNames}
           \cup {<<AdviceFile("f1", n), AdviceFile("f2", m)>> : n, m \in FileNames}

\* one entry of caseAdvices
AdviceWithFiles(files) ==
    JObj("id" :> JNum(1) @@ "participantName" :> JStr("Jón") @@
         "content" :> JStr("Gott mál") @@ "created" :> JStr("2024-01-01") @@
         "adviceFiles" :> files)

CaseAdvicesEnvelope(advices) ==
    JObj("data" :> JObj("consultationPortalCaseById" :> JObj("caseAdvices" :> advices)))

\* what `await apiClient.post(graphqlApiUrl, body)` returns (line 374)
CaseAdvicesResponses ==
    {[success |-> FALSE, data |-> JNull, status |-> s,
      error |-> ApiError(IF s = 0 THEN NetworkErrorMessage ELSE HttpErrorMessage(s), "")]
        : s \in {0, 500}}
    \cup {[success |-> TRUE, data |-> d, status |-> 200, error |-> JUndef] :
            d \in {JNull, JObj("data" :> JObj("consultationPortalCaseById" :> JNull)),
                   CaseAdvicesEnvelope(JNull), CaseAdvicesEnvelope(JArr(<<>>)),
                   CaseAdvicesEnvelope(JArr(<<AdviceWithFiles(JNull)>>)),
                   CaseAdvicesEnvelope(JArr(<<AdviceEmpty @@ ("adviceFiles" :> JArr(<<>>)),
                                              AdviceWithFiles(JArr(<<AdviceFile("f1", <<"a", ".", "a">>)>>))>>))}
              \cup {CaseAdvicesEnvelope(JArr(<<AdviceWithFiles(JArr(fl))>>)) :
                        fl \in AdviceFileLists}}

\* name.split('.')
RECURSIVE split(_)
split(s) ==
    IF \A i \in DOMAIN s : s[i] # "." THEN <<s>>
    ELSE LET i == CHOOSE i \in DOMAIN s : s[i] = "." /\ \A j \in 1..(i - 1) : s[j] # "."
         IN  <<SubSeq(s, 1, i - 1)>> \o split(SubSeq(s, i + 1, Len(s)))

\* Array.prototype.pop: the last element
pop(a) == a[Len(a)]

\* lines 336-340: one entry of adviceFiles as an attachment
MapFile(file) ==
    [id |-> Prop(file, "id"),
     name |-> Prop(file, "name"),
     fileType |-> LET p == pop(split(Prop(file, "name").s))
                  IN  JStr(IF p # <<>> THEN p ELSE <<>>)]

\* lines 330-341
mapGraphQLAdviceToCaseComment(advice, id) ==
    [id |-> Prop(advice, "id"),
     caseId |-> id,
     contact |-> Prop(advice, "participantName"),
     comment |-> IF Truthy(Prop(advice, "content")) THEN Prop(advice, "content")
                 ELSE JStr(NoCommentPlaceholder),
     created |-> Prop(advice, "created"),
     attachments |-> LET files == Prop(advice, "adviceFiles").items
                     IN  [j \in 1..Len(files) |-> MapFile(files[j])]]

MapTypeErrorMessage == "Cannot read properties of null (reading 'map')"

\* lines 376-388, after `await apiClient.post(...)` has returned response
AfterCaseAdvices(response, id) ==
    IF ~response.success THEN Raise(CommentsErrorMessage)
    ELSE LET caseAdvicesResult ==
                 Prop(Prop(Prop(response.data, "data"), "consultationPortalCaseById"),
                      "caseAdvices")
         IN  IF ~Truthy(caseAdvicesResult) THEN Value(<<>>)
             ELSE IF \E i \in DOMAIN caseAdvicesResult.items :
                        Prop(caseAdvicesResult.items[i], "adviceFiles").t # "array"
             THEN Raise(MapTypeErrorMessage)
             ELSE Value([i \in 1..Len(caseAdvicesResult.items) |->
                           mapGraphQLAdviceToCaseComment(caseAdvicesResult.items[i], id)])

\* a caller invokes this fetchCaseComments(id): lines 354-374, up to the await
SingleQueryCommentsCall(id) ==
    /\ pc = "idle"
    /\ op' = "singleQueryFetchCaseComments"
    /\ arg' = id
    /\ IF parseInt(id).nan
       THEN /\ result' = Raise(InvalidIdMessage)
            /\ pc' = "done"
            /\ UNCHANGED <<caseId, requests>>
       ELSE /\ caseId' = parseInt(id).n
            /\ requests' = <<PostRequest(GraphQLEndpoint, "ConsultationPortalCaseById",
                                         parseInt(id).n)>>
            /\ pc' = "await"
            /\ UNCHANGED result
    /\ UNCHANGED <<fetched, outcomes>>
    /\ UNCHANGED <<uiVars, chatVars>>

\* the post returns and fetchCaseComments runs to its return or throw
SingleQueryCommentsSettle(response) ==
    /\ op = "singleQueryFetchCaseComments" /\ pc = "await"
    /\ outcomes' = Append(outcomes, Return(response))
    /\ result' = AfterCaseAdvices(response, caseId)
    /\ pc' = "done"
    /\ UNCHANGED <<op, arg, caseId, requests, fetched>>
    /\ UNCHANGED <<uiVars, chatVars>>

NextVariants ==
    \/ \E e \in Endpoints, n \in 0..MaxParams : \E p \in ParamMaps(n) :
            GetWithParamsCall(e, p)
    \/ \E f \in FetchOutcomes : GetSettle(f)
    \/ \E e \in Endpoints : ThrowingGetCall(e)
    \/ \E f \in FetchOutcomes : ThrowingGetSettle(f)
    \/ \E id \in Ids : RestCommentsCall(id)
    \/ \E f \in FetchOutcomes : RestCommentsSettle(f)
    \/ \E id \in Ids : SingleQueryCommentsCall(id)
    \/ \E response \in CaseAdvicesResponses : SingleQueryCommentsSettle(response)
    \/ Finish

SpecVariants == Init /\ [][NextVariants]_vars


----------------------------------------------------------------------------
(* Properties of the transport client.                                    *)

\* the i-th apiClient call of the running operation returned this ApiResponse
Resp(i) == outcomes[i].resp

\* the i-th fetch brought a 2xx response whose body was read and is not JSON
Unparseable2xx(i) ==
    /\ fetched[i].kind = "response" /\ ResponseOk(fetched[i].status)
    /\ fetched[i].bodyOk /\ ~JSONParse(fetched[i].body).ok

\* C1: every call of get and post completes by returning an ApiResponse and
\* never by throwing, whatever the fetch did (a response of any status, a
\* rejected fetch, a body that cannot be read); a 2xx response whose body is
\* not JSON gives success = false.
C1_TransportNeverRaises ==
    \A i \in DOMAIN outcomes :
        /\ outcomes[i].kind = "return"
        /\ Resp(i).success \in BOOLEAN
        /\ Unparseable2xx(i) => Resp(i).success = FALSE

C1_Witness ==
    /\ op = "get" /\ pc = "done"
    /\ Unparseable2xx(1)
    /\ outcomes[1].kind = "return" /\ ~Resp(1).success

\* C2 as stated: success = true implies data is non-null and error is absent,
\* success = false implies data is null and error is present.
C2_ExactlyOnePopulated ==
    \A i \in DOMAIN outcomes :
        /\ Resp(i).success => (Resp(i).data # JNull /\ Resp(i).error = JUndef)
        /\ ~Resp(i).success => (Resp(i).data = JNull /\ Resp(i).error # JUndef)

\* C2 as amended: success = false implies data is null and error is present;
\* success = true implies error is absent and data is the parsed body, which
\* is null exactly when the 2xx body is the JSON literal null.
C2_AtMostOnePopulated ==
    \A i \in DOMAIN outcomes :
        /\ ~Resp(i).success => (Resp(i).data = JNull /\ Resp(i).error # JUndef)
        /\ Resp(i).success =>
              /\ Resp(i).error = JUndef
              /\ Resp(i).data = JSONParse(fetched[i].body).val
              /\ Resp(i).data = JNull <=> fetched[i].body = "null"

C2_Witness ==
    /\ op = "post" /\ pc = "done"
    /\ fetched[1].kind = "response" /\ fetched[1].body = "null"
    /\ Resp(1).success /\ Resp(1).data = JNull /\ Resp(1).error = JUndef

\* C3: for every response with a status outside [200,299] (its body read as
\* text), get and post return a failure whose status is exactly the response
\* status, whose error.body is exactly the raw body text and whose data is
\* null: the body is not parsed as the payload.
C3_HttpFailureKeepsStatusAndBody ==
    \A i \in DOMAIN outcomes :
        ( /\ fetched[i].kind = "response" /\ ~ResponseOk(fetched[i].status)
          /\ fetched[i].bodyOk ) =>
            /\ outcomes[i].kind = "return"
            /\ ~Resp(i).success
            /\ Resp(i).status = fetched[i].status
            /\ Resp(i).error.body = fetched[i].body
            /\ Resp(i).data = JNull

C3_Witness ==
    /\ op = "post" /\ pc = "done"
    /\ fetched[1] = Responded(404, "{\"data\":{}}")
    /\ ~Resp(1).success /\ Resp(1).status = 404
    /\ Resp(1).error.body = "{\"data\":{}}" /\ Resp(1).data = JNull

\* C4: for every response with a status in [200,299] and a valid JSON body,
\* get and post return success = true with exactly that status and with data
\* equal to the parsed body.
C4_SuccessKeepsStatusAndPayload ==
    \A i \in DOMAIN outcomes :
        ( /\ fetched[i].kind = "response" /\ ResponseOk(fetched[i].status)
          /\ fetched[i].bodyOk /\ JSONParse(fetched[i].body).ok ) =>
            /\ outcomes[i].kind = "return"
            /\ Resp(i).success
            /\ Resp(i).status = fetched[i].status
            /\ Resp(i).data = JSONParse(fetched[i].body).val

C4_Witness ==
    /\ op = "get" /\ pc = "done"
    /\ fetched[1] = Responded(204, "{\"data\":{}}")
    /\ Resp(1).success /\ Resp(1).status = 204
    /\ Resp(1).data = JObj("data" :> JObj(<<>>))

\* the message of every HTTP-status failure
HttpFailureMessages == {HttpErrorMessage(s) : s \in 100..599}

\* C5: when the fetch fails with no response at all, the outcome is a failure
\* with status 0, data null, the underlying error text as error.body, and a
\* message that is not the message of any HTTP-status failure.
C5_NetworkFailureOutcome ==
    \A i \in DOMAIN outcomes :
        fetched[i].kind = "reject" =>
            /\ outcomes[i].kind = "return"
            /\ ~Resp(i).success
            /\ Resp(i).status = 0
            /\ Resp(i).data = JNull
            /\ Resp(i).error.body = fetched[i].err
            /\ Resp(i).error.message \notin HttpFailureMessages

C5_Witness ==
    /\ op = "post" /\ pc = "done"
    /\ fetched[1] = Rejected
    /\ Resp(1).status = 0 /\ Resp(1).error.body = "Failed to fetch"
    /\ Resp(1).error.message = NetworkErrorMessage

\* C6 as stated: an outcome carries status 0 only if no HTTP response was
\* obtained for that call, and only then the network-failure message.
C6_StatusZeroOnlyWithoutResponse ==
    \A i \in DOMAIN outcomes :
        /\ Resp(i).status = 0 => fetched[i].kind = "reject"
        /\ (~Resp(i).success /\ Resp(i).error.message = NetworkErrorMessage)
              => fetched[i].kind = "reject"

----------------------------------------------------------------------------
(* Properties of fetchCaseComments.                                       *)

\* the i-th query came back 2xx with a GraphQL envelope that has a populated
\* errors array and no data
GraphQLRejected(i) ==
    /\ i \in DOMAIN outcomes
    /\ outcomes[i].kind = "return" /\ Resp(i).success
    /\ Prop(Resp(i).data, "errors").t = "array"
    /\ Len(Prop(Resp(i).data, "errors").items) > 0
    /\ Prop(Resp(i).data, "data") \in {JUndef, JNull}

\* C7 as stated: when the existence query or the comments query comes back
\* 2xx with populated errors and no data, fetchCaseComments raises and does
\* not return the empty sequence.
C7_GraphQLErrorsRaise ==
    (op = "fetchCaseComments" /\ pc = "done" /\ (GraphQLRejected(1) \/ GraphQLRejected(2)))
        => result.kind = "throw"

\* the existence query succeeded and reported the case as absent
CaseReportedAbsent ==
    /\ op = "fetchCaseComments" /\ Len(outcomes) >= 1
    /\ outcomes[1].kind = "return" /\ Resp(1).success
    /\ Prop(Prop(Resp(1).data, "data"), "consultationPortalCaseById") = JNull

\* C8: when the existence query succeeds and reports the case as absent,
\* fetchCaseComments returns the empty sequence, does not raise, and issues
\* no comments query.
C8_AbsentCaseShortCircuits ==
    CaseReportedAbsent =>
        /\ pc = "done"
        /\ result = Value(<<>>)
        /\ Len(requests) = 1 /\ requests[1].operationName = "CaseMeta"

C8_Witness ==
    /\ CaseReportedAbsent /\ caseId = 42
    /\ pc = "done" /\ result = Value(<<>>) /\ Len(requests) = 1

\* what the comments query answered under data.consultationPortalAdviceByCaseId
RawAdvices == Prop(Prop(Resp(2).data, "data"), "consultationPortalAdviceByCaseId")

\* the case was confirmed and the comments query succeeded with null, with
\* the field missing, or with an empty list
NoAdvicesReported ==
    /\ op = "fetchCaseComments" /\ Len(outcomes) = 2
    /\ outcomes[2].kind = "return" /\ Resp(2).success
    /\ RawAdvices \in {JNull, JUndef, JArr(<<>>)}

\* C9: for a confirmed case, a comments query that succeeds with null, a
\* missing field or an empty list makes fetchCaseComments return the empty
\* sequence, as for a case reported absent, and not raise.
C9_NoAdvicesIsEmpty ==
    NoAdvicesReported => (pc = "done" /\ result = Value(<<>>))

C9_Witness ==
    /\ NoAdvicesReported /\ RawAdvices = JNull
    /\ Found(Resp(1)) /\ Len(requests) = 2
    /\ pc = "done" /\ result = Value(<<>>)

\* some transport call of the running fetchCaseComments returned a failure
TransportFailed ==
    /\ op = "fetchCaseComments"
    /\ \E i \in DOMAIN outcomes : outcomes[i].kind = "return" /\ ~Resp(i).success

\* C10: fetchCaseComments raises the comments-fetch error whenever the
\* outcome of the existence query or of the comments query is a failure
\* (any non-2xx status, or status 0), and returns no sequence then.
C10_TransportFailureRaises ==
    TransportFailed =>
        /\ pc = "done"
        /\ result.kind = "throw"
        /\ result.message = CommentsErrorMessage

C10_Witness ==
    /\ TransportFailed /\ Len(outcomes) = 2
    /\ Resp(1).success /\ Resp(2).status = 404
    /\ result = Raise(CommentsErrorMessage)

----------------------------------------------------------------------------
(* Properties of searchCases, fetchCaseById and of the repository as a    *)
(* whole.                                                                 *)

\* s is a numeric identifier: digits only, allowing for white space around
\* them and a sign in front
NumericId(s) ==
    LET t == TrimEnd(TrimStart(s))
        u == IF t # <<>> /\ Head(t) \in {"+", "-"} THEN Tail(t) ELSE t
    IN  u # <<>> /\ \A i \in DOMAIN u : u[i] \in DigitChars

\* the running call was given an id that is not valid for it
InvalidIdGiven ==
    \/ op = "fetchCaseById" /\ arg = <<>>
    \/ op = "fetchCaseComments" /\ ~NumericId(arg)

\* C11: a call with an invalid id (fetchCaseById with the empty id,
\* fetchCaseComments with an id that is not a numeric identifier) raises
\* and hands no request to the transport client.
C11_InvalidIdsRejected ==
    InvalidIdGiven => (pc = "done" /\ result.kind = "throw" /\ requests = <<>>)

\* searchCases has completed
SearchCasesDone == op = "searchCases" /\ pc = "done"

\* C12: searchCases raises exactly when the outcome of its get is a
\* failure; on a success it returns the payload's cases as they are and in
\* their order, and the empty sequence when the payload is null or its
\* cases are null or missing.
C12_SearchCasesResult ==
    SearchCasesDone =>
        LET cases == Prop(Resp(1).data, "cases")
        IN  /\ result.kind \in {"return", "throw"}
            /\ (result.kind = "throw") <=> ~Resp(1).success
            /\ (Resp(1).success /\ cases.t = "array") => result = Value(cases.items)
            /\ (Resp(1).success /\ cases \in {JNull, JUndef}) => result = Value(<<>>)

C12_Witness ==
    /\ SearchCasesDone /\ Resp(1).success
    /\ result = Value(<<CaseB, CaseA>>)

\* fetchCaseById has completed
FetchCaseByIdDone == op = "fetchCaseById" /\ pc = "done"

\* C13: fetchCaseById returns a case that is neither null nor undefined, or
\* raises; on a failure outcome and on a success without payload it raises
\* an error whose message names the id.
C13_FetchCaseByIdNeverNull ==
    FetchCaseByIdDone =>
        /\ result.kind \in {"return", "throw"}
        /\ result.kind = "return" => result.value \notin {JNull, JUndef}
        /\ (arg # <<>> /\ ~Resp(1).success) =>
               result = Raise("Gat ekki sótt mál með ID: " \o IdText(arg) \o ".")
        /\ (arg # <<>> /\ Resp(1).success /\ Resp(1).data = JNull) =>
               result = Raise("Ekkert mál fannst með ID: " \o IdText(arg) \o ".")

C13_Witness ==
    /\ FetchCaseByIdDone /\ arg = <<"4", "2">>
    /\ Resp(1).success /\ Resp(1).data = JNull
    /\ result = Raise("Ekkert mál fannst með ID: 42.")

\* C14: no retries.  A call of get, post or searchCases, and a call of
\* fetchCaseById that passes its id check, has issued exactly one request
\* from its start to its end; every transport call stands for one request;
\* after a failure outcome no further request is issued, and no request is
\* issued twice.
C14_NoRetries ==
    /\ op \in {"get", "post", "searchCases"} => Len(requests) = 1
    /\ (op = "fetchCaseById" /\ arg # <<>>) => Len(requests) = 1
    /\ Len(outcomes) = Len(fetched)
    /\ Len(requests) \in {Len(fetched), Len(fetched) + 1}
    /\ \A i \in DOMAIN outcomes : ~Resp(i).success => Len(requests) = i
    /\ \A i, j \in DOMAIN requests : requests[i] = requests[j] => i = j

C14_Witness ==
    /\ SearchCasesDone /\ ~Resp(1).success
    /\ fetched[1].kind = "reject"
    /\ Len(requests) = 1

\* the comments query succeeded with a list of upstream records
AdvicesListed ==
    /\ op = "fetchCaseComments" /\ pc = "done" /\ Len(outcomes) = 2
    /\ Resp(2).success /\ RawAdvices.t = "array"

\* C15: the comments returned are the upstream records one to one and in
\* order; each carries the numeric id that was requested as caseId, the
\* empty string for a missing submitter name, the placeholder for a missing
\* or empty body, and no attachments.
C15_CommentsMappedInOrder ==
    AdvicesListed =>
        /\ result.kind = "return"
        /\ Len(result.value) = Len(RawAdvices.items)
        /\ \A k \in DOMAIN RawAdvices.items :
              LET a == RawAdvices.items[k]
                  c == result.value[k]
              IN  /\ c.id = Prop(a, "id")
                  /\ c.created = Prop(a, "created")
                  /\ c.caseId = parseInt(arg).n
                  /\ c.caseId = requests[2].caseId
                  /\ c.contact = IF Prop(a, "participantName") \in {JNull, JUndef}
                                 THEN JStr("") ELSE Prop(a, "participantName")
                  /\ c.comment = IF Prop(a, "content") \in {JNull, JUndef, JStr("")}
                                 THEN JStr("Engin athugasemd fylgdi.")
                                 ELSE Prop(a, "content")
                  /\ c.attachments = <<>>

C15_Witness ==
    /\ AdvicesListed /\ RawAdvices = JArr(<<AdviceFull, AdviceBare>>)
    /\ Len(result.value) = 2
    /\ result.value[1].comment = JStr("Gott mál")
    /\ result.value[2].contact = JStr("")
    /\ result.value[2].comment = JStr("Engin athugasemd fylgdi.")

\* the Icelandic display messages of the repository, for the id of the
\* running call
IcelandicMessages ==
    { "Gat ekki sótt málalista.",
      "Gat ekki sótt mál með ID: " \o IdText(arg) \o ".",
      "Ekkert mál fannst með ID: " \o IdText(arg) \o ".",
      "Gat ekki sótt umsagnir fyrir mál." }

\* the diagnostic texts of the transport: response bodies, fetch errors,
\* and the message and body of each failure outcome
DiagnosticTexts ==
    {fetched[i].body : i \in DOMAIN fetched} \cup
    {fetched[i].err : i \in DOMAIN fetched} \cup
    {Resp(i).error.body : i \in {j \in DOMAIN outcomes : ~Resp(j).success}} \cup
    {Resp(i).error.message : i \in {j \in DOMAIN outcomes : ~Resp(j).success}}

\* C16: an error raised by searchCases, fetchCaseById or fetchCaseComments
\* carries one of the repository's Icelandic display messages, and never a
\* diagnostic text of the transport.
C16_ErrorsAreLocalizedMessages ==
    (op \in {"searchCases", "fetchCaseById", "fetchCaseComments"} /\ result.kind = "throw") =>
        /\ result.message \in IcelandicMessages
        /\ result.message \notin DiagnosticTexts

----------------------------------------------------------------------------
(* Properties of the CaseLookup component.                                *)

\* C17: the result fields of the panel only hold results of calls issued
\* for the selected case: a call that was pending for a case selected
\* earlier does not set caseDetails, althingiStatus or
\* althingiReviewAnalysis when it completes after another case was selected.
C17_StaleResultsIgnored ==
    /\ caseDetails # JNull => caseDetails.caseId = selectedApiCase.id
    /\ althingiStatus # JNull => althingiStatus.title = selectedApiCase.name
    /\ althingiReviewAnalysis # JNull =>
           althingiReviewAnalysis.title = selectedApiCase.name

\* in this step Promise.all of run r rejects: one of its two calls fails
\* while the handler is waiting for them
SiblingFails(r) ==
    /\ r \in DOMAIN runs /\ runs[r].pc = "siblings"
    /\ runs'[r].details = "failed" \/ runs'[r].status = "failed"

\* C18: caseDetails and althingiStatus are set together, by a run whose two
\* calls have both succeeded, whichever of them completed first; when one of
\* the two calls fails, neither field is set and error holds the
\* analysis-failure message.
C18_SiblingsJoined ==
    /\ [](caseDetails # JNull <=> althingiStatus # JNull)
    /\ [](caseDetails # JNull =>
            \E r \in DOMAIN runs :
                /\ runs[r].details = "ok" /\ runs[r].status = "ok"
                /\ caseDetails = Details(runs[r].caseItem, runs[r].comments)
                /\ althingiStatus = Status(runs[r].caseItem.name))
    /\ [][\A r \in 1..MaxRuns :
            SiblingFails(r) =>
                /\ caseDetails' = JNull /\ althingiStatus' = JNull
                /\ error' = JStr("Gat ekki búið til ítarlega greiningu fyrir valið mál.")]_vars

C18_Witness ==
    /\ Len(runs) = 2
    /\ runs[1].first = "details" /\ runs[2].first = "status"
    /\ \A r \in {1, 2} : runs[r].details = "ok" /\ runs[r].status = "ok"
    /\ caseDetails = Details(runs[2].caseItem, runs[2].comments)
    /\ althingiStatus = Status(runs[2].caseItem.name)

\* the comments handed to summarizeCaseDetails are those the same run fetched
OwnCommentsPassed(r) ==
    runs[r].passed # JNull =>
        /\ runs[r].passed = runs[r].comments
        /\ runs[r].passed.caseId = runs[r].caseItem.id
        /\ runs[r].passed.fetch = r

\* C19 as stated: once a case is selected, a fetchCaseComments call for it
\* has been issued under that selection; and no analysis is handed comments
\* of an earlier fetch.
C19_SelectionTriggersFetch ==
    /\ selectedApiCase # JNull =>
           \E r \in DOMAIN runs :
               runs[r].sel = selections /\ runs[r].fetchId = selectedApiCase.id
    /\ \A r \in DOMAIN runs : OwnCommentsPassed(r)

\* C19, amended: selecting a case issues no call; every start of an analysis
\* issues one fetchCaseComments call of its own, for the case selected at
\* that moment, and the analysis of that run is handed the comments this
\* call returned, never those of another fetch.
C19_FreshFetchPerAnalysis ==
    /\ [](\A r \in DOMAIN runs :
            /\ runs[r].fetchId = runs[r].caseItem.id
            /\ OwnCommentsPassed(r)
            /\ \A q \in DOMAIN runs :
                   (q # r /\ runs[q].comments # JNull) => runs[q].comments # runs[r].comments)
    /\ [][/\ selections' # selections => runs' = runs
          /\ runs' # runs /\ Len(runs') > Len(runs) =>
                 /\ Len(runs') = Len(runs) + 1
                 /\ runs'[Len(runs')].caseItem = selectedApiCase
                 /\ runs'[Len(runs')].fetchId = selectedApiCase.id
                 /\ runs'[Len(runs')].comments = JNull]_vars

C19_Witness ==
    /\ Len(runs) = 2
    /\ runs[1].caseItem # runs[2].caseItem
    /\ runs[1].passed = Comments(runs[1].caseItem.id, 1)
    /\ runs[2].passed = Comments(runs[2].caseItem.id, 2)

Parseable(c) == ~DateTime(c.created).nan

\* among the displayed cases, those with a parseable date are ordered newest
\* first, and none of them comes after a case with an unparseable date
NewestFirst ==
    \A i, j \in DOMAIN displayedCases : i < j =>
        /\ Parseable(displayedCases[j]) => Parseable(displayedCases[i])
        /\ (Parseable(displayedCases[i]) /\ Parseable(displayedCases[j])) =>
               DateTime(displayedCases[i].created).n >= DateTime(displayedCases[j].created).n

\* s and t hold the same cases, each as often
PermutationOf(s, t) ==
    /\ Len(s) = Len(t)
    /\ \A c \in CasePool :
           Cardinality({i \in DOMAIN s : s[i] = c}) = Cardinality({i \in DOMAIN t : t[i] = c})

\* the name of c contains the search term, letter case aside
ContainsTerm(c) == includes(toLowerCase(c.name), toLowerCase(searchTerm))

\* C20 as stated: the displayed list is ordered newest first with the
\* unparseable dates last, and is a permutation of the cases of allCases
\* whose name contains the search term.
C20_DisplayedSortedContaining ==
    /\ NewestFirst
    /\ PermutationOf(displayedCases, SelectSeq(allCases, ContainsTerm))

\* C20, amended: the displayed list is ordered newest first with the
\* unparseable dates last; it is a permutation of allCases when the search
\* term is empty or white space only, and otherwise of the cases of allCases
\* whose name contains the search term, letter case aside.
C20_DisplayedSortedFiltered ==
    /\ NewestFirst
    /\ PermutationOf(displayedCases,
                     IF trim(searchTerm) = <<>> THEN allCases
                     ELSE SelectSeq(allCases, ContainsTerm))

C20_Witness ==
    /\ Len(allCases) = 4 /\ searchTerm = <<"a">>
    /\ ~Parseable(allCases[1]) /\ Parseable(allCases[4])
    /\ Len(displayedCases) = 3
    /\ displayedCases[1] = allCases[4]
    /\ ~Parseable(displayedCases[2]) /\ ~Parseable(displayedCases[3])

----------------------------------------------------------------------------
(* Properties of the two stages of fetchCaseComments.                     *)

\* what the existence query answered under data.consultationPortalCaseById
RawCase == Prop(Prop(Resp(1).data, "data"), "consultationPortalCaseById")

\* C23: fetchCaseComments issues at most two POST requests: the CaseMeta
\* query first, and the CaseAdvices query second and only after the
\* CaseMeta query returned a success carrying a case record; both carry the
\* numeric id that was parsed from the argument.
C23_ExistenceQueryFirst ==
    op = "fetchCaseComments" =>
        /\ Len(requests) <= 2
        /\ \A i \in DOMAIN requests :
               /\ requests[i].method = "POST"
               /\ requests[i].caseId = parseInt(arg).n
        /\ Len(requests) >= 1 => requests[1].operationName = "CaseMeta"
        /\ Len(requests) = 2 =>
               /\ requests[2].operationName = "CaseAdvices"
               /\ Len(outcomes) >= 1
               /\ outcomes[1].kind = "return" /\ Resp(1).success
               /\ RawCase.t = "object"

C23_Witness ==
    /\ op = "fetchCaseComments" /\ pc = "awaitAdv"
    /\ Len(requests) = 2 /\ Len(outcomes) = 1
    /\ requests[1].operationName = "CaseMeta"
    /\ requests[2].operationName = "CaseAdvices"
    /\ requests[1].caseId = 42 /\ requests[2].caseId = 42

\* the existence query succeeded and upstream returned the record of the
\* requested case
CaseReportedPresent ==
    /\ op = "fetchCaseComments" /\ Len(outcomes) >= 1
    /\ outcomes[1].kind = "return" /\ Resp(1).success
    /\ RawCase.t = "object"
    /\ Prop(RawCase, "id") = JNum(caseId)

\* C24: whenever the existence query succeeds and upstream returns the
\* record of the requested case, for every numeric id, the comments query
\* is issued and the call does not end at the existence stage.
C24_PresentCaseIsQueried ==
    CaseReportedPresent =>
        /\ Len(requests) = 2
        /\ requests[2].operationName = "CaseAdvices"

----------------------------------------------------------------------------
(* Properties of the component's loading flags and of its handlers.       *)

\* every handleStartAnalysis run started so far has run to its end
AllRunsEnded == \A r \in DOMAIN runs : runs[r].pc = "done"

\* C27: once loadAllCases has ended, isLoadingCases is false, and when it
\* ended by failure allCases is empty and error is set to the raised
\* message; once every handleStartAnalysis run has ended, by success or by
\* the failure of any of its calls, isLoadingDetails and isLoadingAlthingi
\* are false; and the two are equal in every state.
C27_LoadingFlagsClear ==
    /\ [](loadPc # "await" => ~isLoadingCases)
    /\ [](loadPc = "failed" => allCases = <<>>)
    /\ [][(loadPc = "await" /\ loadPc' = "failed") =>
              /\ allCases' = <<>>
              /\ error' = JStr("Gat ekki sótt málalista.")]_vars
    /\ [](AllRunsEnded => (~isLoadingDetails /\ ~isLoadingAlthingi))
    /\ [](isLoadingDetails = isLoadingAlthingi)

C27_Witness ==
    /\ loadPc = "done" /\ ~isLoadingCases
    /\ Len(runs) = 2 /\ AllRunsEnded
    /\ runs[1].comments = JNull
    /\ runs[2].details = "ok" /\ runs[2].status = "failed"
    /\ ~isLoadingDetails /\ ~isLoadingAlthingi

\* the handleStartAnalysis runs that have not run to their end
InFlight == {r \in DOMAIN runs : runs[r].pc # "done"}

\* C28: at most one handleStartAnalysis run is in flight at any time, and a
\* run starts only in a state where a case is selected, isLoadingDetails and
\* isLoadingAlthingi are false and caseDetails is null.
C28_OneAnalysisInFlight ==
    /\ [](Cardinality(InFlight) <= 1)
    /\ [][Len(runs') > Len(runs) =>
              /\ selectedApiCase # JNull
              /\ ~isLoadingDetails /\ ~isLoadingAlthingi
              /\ caseDetails = JNull]_vars

C28_Witness ==
    /\ Len(runs) = 2
    /\ runs[1].pc = "done" /\ runs[1].status = "pending"
    /\ runs[2].pc = "siblings"
    /\ runs[1].sel # runs[2].sel

\* C29: a step of handleSelectCase sets selectedApiCase to a case of the
\* displayed list, resets caseDetails, althingiStatus, althingiReviewAnalysis
\* and error to null, leaves allCases, displayedCases, searchTerm and the four
\* loading flags as they are, and starts no call.
C29_SelectCaseFrame ==
    [][selections' # selections =>
          /\ \E i \in DOMAIN displayedCases : displayedCases[i] = selectedApiCase'
          /\ caseDetails' = JNull /\ althingiStatus' = JNull
          /\ althingiReviewAnalysis' = JNull /\ error' = JNull
          /\ UNCHANGED <<allCases, displayedCases, searchTerm, isLoadingCases,
                         isLoadingDetails, isLoadingAlthingi, isLoadingAlthingiReviews>>
          /\ UNCHANGED <<loadPc, runs, reviews, repoVars>>]_vars

C29_Witness ==
    /\ selections = 2 /\ Len(runs) = 1 /\ runs[1].pc = "siblings"
    /\ selectedApiCase # runs[1].caseItem
    /\ isLoadingDetails /\ isLoadingAlthingi
    /\ caseDetails = JNull /\ error = JNull

----------------------------------------------------------------------------
(* Properties of the URL of a GET request.                                *)

\* the pieces of s between the occurrences of the character c
RECURSIVE SplitOn(_, _)
SplitOn(s, c) ==
    IF \A i \in DOMAIN s : s[i] # c THEN <<s>>
    ELSE LET i == CHOOSE i \in DOMAIN s : s[i] = c /\ \A j \in 1..(i - 1) : s[j] # c
         IN  <<SubSeq(s, 1, i - 1)>> \o SplitOn(SubSeq(s, i + 1, Len(s)), c)

\* the characters that percent-encoded bytes stand for
PercentCodes ==
    <<"%", "2", "6">> :> "&" @@ <<"%", "3", "D">> :> "=" @@ <<"%", "2", "B">> :> "+" @@
    <<"%", "2", "5">> :> "%" @@ <<"%", "2", "0">> :> " " @@
    <<"%", "C", "3", "%", "A", "9">> :> "é"

\* what a server reads from a piece of a query string: "+" is a space and
\* percent-encoded bytes are the character they encode
RECURSIVE Unescape(_)
Unescape(s) ==
    IF s = <<>> THEN <<>>
    ELSE IF Head(s) = "+" THEN <<" ">> \o Unescape(Tail(s))
    ELSE IF Len(s) >= 6 /\ SubSeq(s, 1, 6) \in DOMAIN PercentCodes
    THEN <<PercentCodes[SubSeq(s, 1, 6)]>> \o Unescape(SubSeq(s, 7, Len(s)))
    ELSE IF Len(s) >= 3 /\ SubSeq(s, 1, 3) \in DOMAIN PercentCodes
    THEN <<PercentCodes[SubSeq(s, 1, 3)]>> \o Unescape(SubSeq(s, 4, Len(s)))
    ELSE <<Head(s)>> \o Unescape(Tail(s))

\* the key/value pairs a query string carries: its pieces between "&", each
\* cut at its first "="
ParsePair(piece) ==
    IF \A i \in DOMAIN piece : piece[i] # "=" THEN <<Unescape(piece), <<>>>>
    ELSE LET i == CHOOSE i \in DOMAIN piece :
                      piece[i] = "=" /\ \A j \in 1..(i - 1) : piece[j] # "="
         IN  <<Unescape(SubSeq(piece, 1, i - 1)), Unescape(SubSeq(piece, i + 1, Len(piece)))>>

ParseQuery(q) ==
    LET pieces == SelectSeq(SplitOn(q, "&"), LAMBDA x : x # <<>>)
    IN  [j \in 1..Len(pieces) |-> ParsePair(pieces[j])]

\* C21: for every non-empty parameter map, the URL handed to fetch is the
\* proxy prefix, the base URL and the endpoint, then "?" and a query string
\* that carries as many pairs as the map has properties, and exactly the
\* map's keys with their values as strings
C21_QueryStringCarriesParams ==
    \A i \in DOMAIN requests :
        ("params" \in DOMAIN requests[i] /\ requests[i].params # <<>>) =>
            LET u == requests[i].url
                params == requests[i].params
                carried == ParseQuery(SubSeq(u, 5, Len(u)))
            IN  /\ SubSeq(u, 1, 3) = <<CORS_PROXY_URL, API_BASE_URL, requests[i].target>>
                /\ u[4] = "?"
                /\ Len(carried) = Len(params)
                /\ {carried[j] : j \in DOMAIN carried} =
                       {<<params[j][1], StringOf(params[j][2])>> : j \in DOMAIN params}

C21_Witness ==
    /\ op = "get" /\ pc = "done"
    /\ "params" \in DOMAIN requests[1]
    /\ requests[1].params = <<<< <<"&", "=">>, JStr(<<"+", "%">>) >>, << <<"a", " ", "b">>, JNum(1500) >> >>
    /\ SubSeq(requests[1].url, 5, Len(requests[1].url)) =
           <<"%", "2", "6", "%", "3", "D", "=", "%", "2", "B", "%", "2", "5", "&",
             "a", "+", "b", "=", "1", "5", "0", "0">>

----------------------------------------------------------------------------
(* Properties of the API client that throws, and of the fetchCaseComments *)
(* that reads the REST submissions.                                       *)

\* the i-th call of the throwing get failed without an HTTP error status
\* whose body was read: fetch rejected, reading the body failed, or the body
\* of a 2xx response is not JSON
OtherFailure(i) ==
    \/ fetched[i].kind = "reject"
    \/ ~fetched[i].bodyOk
    \/ ResponseOk(fetched[i].status) /\ ~JSONParse(fetched[i].body).ok

\* C22: the REST fetchCaseComments returns the empty list, and does not
\* raise, when the submissions endpoint answers HTTP 404 (its body read),
\* and raises the fixed comments-fetch message for every other HTTP error
\* status and for every failure without one (a failed body read is such a
\* failure, whatever the status)
C22_NotFoundIsEmpty ==
    (op = "restFetchCaseComments" /\ pc = "done") =>
        /\ ( /\ fetched[1].kind = "response" /\ fetched[1].bodyOk
             /\ fetched[1].status = 404 ) => result = Value(JArr(<<>>))
        /\ ( \/ OtherFailure(1)
             \/ ~ResponseOk(fetched[1].status) /\ fetched[1].status # 404 ) =>
                 result = Raise(CommentsErrorMessage)

C22_Witness ==
    /\ op = "restFetchCaseComments" /\ pc = "done"
    /\ arg = <<"4", "2">>
    /\ requests = <<GetRequest("/api/cases/42/submissions")>>
    /\ fetched[1] = Responded(404, "")
    /\ result = Value(JArr(<<>>))

\* C26: the throwing get throws, for every response with a status outside
\* [200,299] (its body read as text), an HttpError with exactly that status
\* and that body, which is what the caller catches; for a rejected fetch, a
\* failed body read and a failed JSON parse it throws a plain Error with the
\* network message and no status field
C26_HttpErrorReachesCaller ==
    (op \in {"throwingGet", "restFetchCaseComments"}) =>
        \A i \in DOMAIN outcomes :
            /\ ( /\ fetched[i].kind = "response" /\ fetched[i].bodyOk
                 /\ ~ResponseOk(fetched[i].status) ) =>
                   outcomes[i] = Throw(HttpError(HttpErrorMessage(fetched[i].status),
                                                 fetched[i].status, fetched[i].body))
            /\ OtherFailure(i) =>
                   /\ outcomes[i].kind = "throw"
                   /\ outcomes[i].err.name = "Error"
                   /\ outcomes[i].err.message = NetworkErrorMessage
                   /\ "status" \notin DOMAIN outcomes[i].err

C26_Witness ==
    /\ op = "throwingGet" /\ pc = "done"
    /\ fetched[1] = Responded(500, "<html>")
    /\ outcomes[1].kind = "throw"
    /\ outcomes[1].err.name = "HttpError"
    /\ outcomes[1].err.status = 500 /\ outcomes[1].err.body = "<html>"

----------------------------------------------------------------------------
(* Properties of the single-query fetchCaseComments.                      *)

\* the caseAdvices upstream sent in answer to the query
RawCaseAdvices ==
    Prop(Prop(Prop(outcomes[1].resp.data, "data"), "consultationPortalCaseById"),
         "caseAdvices").items

\* the part of a name after its last dot, empty for a name without a dot
SuffixAfterLastDot(s) ==
    IF \A i \in DOMAIN s : s[i] # "." THEN <<>>
    ELSE LET i == CHOOSE i \in DOMAIN s : s[i] = "." /\ \A j \in (i + 1)..Len(s) : s[j] # "."
         IN  SubSeq(s, i + 1, Len(s))

\* C25 as stated: every attachment of a mapped comment has the id and the
\* name of the upstream file, and as file type the suffix after the last dot
\* of the name, empty when the name has no such suffix
C25_FileTypeIsSuffix ==
    (op = "singleQueryFetchCaseComments" /\ pc = "done" /\ result.kind = "return") =>
        \A i \in DOMAIN result.value :
            LET files == Prop(RawCaseAdvices[i], "adviceFiles").items
                attachments == result.value[i].attachments
            IN  /\ Len(attachments) = Len(files)
                /\ \A j \in DOMAIN files :
                      /\ attachments[j].id = Prop(files[j], "id")
                      /\ attachments[j].name = Prop(files[j], "name")
                      /\ attachments[j].fileType =
                             JStr(SuffixAfterLastDot(Prop(files[j], "name").s))

----------------------------------------------------------------------------
(* Properties of the Chatbot.                                             *)

\* the sends that have been accepted and have not reached the end of handleSend
SendsInFlight == {k \in DOMAIN sends : sends[k].pc # "done"}

\* how many messages the k-th send has put into the history so far
Appended(k) ==
    (IF k < Len(sends) THEN sends[k + 1].at ELSE Len(messages)) - sends[k].at

\* C30: at most one send is in flight, isLoading is true exactly while one
\* is, the greeting and every sent message stay where they were put, and a
\* send that has ended has put exactly two messages into the history: the
\* user's message, then one message of the model (a reply or the error text)
C30_OneSendTwoMessages ==
    /\ Cardinality(SendsInFlight) <= 1
    /\ isLoading <=> SendsInFlight # {}
    /\ chat # JNull => messages[1] = Greeting
    /\ \A k \in DOMAIN sends :
          /\ messages[sends[k].at + 1] = ChatMessage("user", sends[k].message)
          /\ sends[k].pc = "done" =>
                /\ Appended(k) = 2
                /\ messages[sends[k].at + 2].role = "model"

============================================================================
